---- MODULE Spec2Model ----
(***************************************************************************)
(* A model of json-class-serializer: the metadata registry (metadata.ts),  *)
(* the path utility (utils.ts) and the serialization / deserialization     *)
(* engine (json-class-serializer.ts).                                      *)
(*                                                                         *)
(* Encoding.  JavaScript values are records tagged by t:                   *)
(*   null, undef, prim (string / boolean, by its literal), num, ref (a     *)
(*   reference to a live object of a heap), obj and arr (a plain object or *)
(*   array written inline: the plain structures serializeToObject builds   *)
(*   and deserializeFromObject reads are fresh trees, so a node is         *)
(*   identified by its position).                                          *)
(* A heap is a sequence of objects, an object's identity its index:        *)
(*   inst (class instance), plain, arr, set, map.                          *)
(* A path is a sequence of segments; a segment is a prim (property key), a *)
(* num (index) or a two-element arr of nums (map entry locator).           *)
(* A descriptor (JsonClassData) is identified by the constructor it was    *)
(* created for; "" stands for undefined wherever a name, a constructor or  *)
(* a hook may be missing.                                                  *)
(* The option circularDependencyLevelPropertyName is null (its default) in *)
(* every configuration of this model, and no heap object has a toJSON of   *)
(* its own, so the branches guarded by them do not run.                    *)
(***************************************************************************)
EXTENDS Integers, Sequences, FiniteSets, TLC

VARIABLES
    classDataByCtor,   \* metadata.ts classDataByCtor: ctor -> descriptor
    classDataByName,   \* metadata.ts classDataByName: name -> descriptor (by its ctor)
    protoClassData,    \* ctor.prototype[ClassDataSymbol], own property: ctor -> descriptor
    declCount,         \* number of decorator applications so far
    heap,              \* the application's live objects
    root,              \* the value the application serializes
    jcs,               \* the JsonClassSerializer instances: id -> fields
    plain,             \* the plain structure the application holds
    serOut,            \* outcome of the last serializeToObject
    deserOut,          \* outcome of the last deserializeFromObject
    staticOptions,     \* JsonClassSerializer.defaultOptions, as it is now
    defaultInstance,   \* JsonClassSerializer._defaultInstance: an id of jcs, 0 for none
    scenario           \* which family of inputs Init drew

vars == <<classDataByCtor, classDataByName, protoClassData, declCount, heap,
          root, jcs, plain, serOut, deserOut, staticOptions, defaultInstance, scenario>>

statics == <<staticOptions, defaultInstance>>

regVars == <<classDataByCtor, classDataByName, protoClassData, declCount>>

----------------------------------------------------------------------------
(* Values *)

Null == [t |-> "null"]
Undef == [t |-> "undef"]
Prim(s) == [t |-> "prim", v |-> s]
Num(n) == [t |-> "num", n |-> n]
Ref(i) == [t |-> "ref", id |-> i]
ObjV(entries) == [t |-> "obj", e |-> entries]
\* an instance of cls the caller has constructed (value.constructor is cls,
\* not Object), with its own properties
LiveV(cls, entries) == [t |-> "obj", e |-> entries, cls |-> cls]
IsLive(value) == value.t = "obj" /\ "cls" \in DOMAIN value
ArrV(elems) == [t |-> "arr", e |-> elems]
Fld(k, v) == [key |-> k, val |-> v]

\* a value that is an object with its own identity, written inline
IsInlineObject(v) == v.t \in {"obj", "arr"}
IsNullish(v) == v.t \in {"null", "undef"}
\* typeof v is 'string', 'number' or 'boolean'; a decimal string is a string
IsPrimitive(v) == v.t \in {"prim", "num", "digits"}
\* JavaScript truthiness
Falsy(v) ==
    \/ IsNullish(v)
    \/ v.t = "prim" /\ v.v \in {"", "false"}
    \/ v.t = "num" /\ v.n = 0
    \/ v.t = "bigint" /\ v.mag = << >>

\* ordered key/value lists (own properties of an object, entries of a Map)
HasKey(entries, k) == \E i \in 1..Len(entries) : entries[i].key = k
KeyIndex(entries, k) == CHOOSE i \in 1..Len(entries) : entries[i].key = k
Lookup(entries, k) == IF HasKey(entries, k) THEN entries[KeyIndex(entries, k)].val ELSE Undef
\* obj[k] = v, Map.prototype.set(k, v): an existing key keeps its position
Put(entries, k, v) ==
    IF HasKey(entries, k)
    THEN [entries EXCEPT ![KeyIndex(entries, k)] = Fld(k, v)]
    ELSE Append(entries, Fld(k, v))
KeysOf(entries) == [i \in 1..Len(entries) |-> entries[i].key]

\* path segments
KeySeg(k) == Prim(k)
IdxSeg(i) == Num(i)
PairSeg(i, slot) == ArrV(<<Num(i), Num(slot)>>)

----------------------------------------------------------------------------
(* Big integers *)

\* A bigint is a sign and a magnitude of arbitrary size: the magnitude is a
\* sequence of limbs in base LimbBase, least significant first, without a
\* leading zero limb (zero is the empty sequence, and has no sign).  A
\* decimal string is an optional '-' and a sequence of decimal digits, most
\* significant first.
LimbBase == 2^15
BigIntV(neg, mag) == [t |-> "bigint", neg |-> neg /\ mag # << >>, mag |-> mag]
DigitsV(neg, d) == [t |-> "digits", neg |-> neg, d |-> d]

RECURSIVE TrimLimbs(_)
TrimLimbs(mag) ==
    IF mag = << >> \/ mag[Len(mag)] # 0 THEN mag
    ELSE TrimLimbs(SubSeq(mag, 1, Len(mag) - 1))

RECURSIVE LimbsOf(_)
\* the magnitude of a natural number
LimbsOf(n) == IF n = 0 THEN << >> ELSE <<n % LimbBase>> \o LimbsOf(n \div LimbBase)

RECURSIVE DivLimbs(_, _, _, _, _)
\* long division of a magnitude by a small divisor, from the most significant
\* limb down: [q, r]
DivLimbs(mag, d, idx, rem, acc) ==
    IF idx = 0 THEN [q |-> TrimLimbs(acc), r |-> rem]
    ELSE DivLimbs(mag, d, idx - 1, (rem * LimbBase + mag[idx]) % d,
                  <<(rem * LimbBase + mag[idx]) \div d>> \o acc)

RECURSIVE MulAddLimbs(_, _, _, _, _)
\* mag * m + carry for small m and carry
MulAddLimbs(mag, m, carry, idx, acc) ==
    IF idx > Len(mag) THEN (IF carry > 0 THEN Append(acc, carry) ELSE acc)
    ELSE MulAddLimbs(mag, m, (mag[idx] * m + carry) \div LimbBase, idx + 1,
                     Append(acc, (mag[idx] * m + carry) % LimbBase))

RECURSIVE DecimalDigits(_)
\* the decimal digits of a magnitude, by repeated division by ten
DecimalDigits(mag) ==
    IF mag = << >> THEN << >>
    ELSE Append(DecimalDigits(DivLimbs(mag, 10, Len(mag), 0, << >>).q),
                DivLimbs(mag, 10, Len(mag), 0, << >>).r)

\* the magnitude a conversion through Number keeps: its 53 leading bits
BitLength(x) == CHOOSE k \in 0..15 : (x = 0 /\ k = 0) \/ (k > 0 /\ 2^(k - 1) <= x /\ x < 2^k)
LeadingBits(mag) ==
    LET drop == 15 * (Len(mag) - 1) + BitLength(mag[Len(mag)]) - 53
    IN [i \in 1..Len(mag) |->
           IF 15 * i <= drop THEN 0
           ELSE IF 15 * (i - 1) < drop THEN mag[i] - (mag[i] % (2^(drop - 15 * (i - 1))))
           ELSE mag[i]]
toString_viaNumber(b) ==
    DigitsV(b.neg, IF b.mag = << >> THEN <<0>> ELSE DecimalDigits(LeadingBits(b.mag)))

\* BigInt.prototype.toString(): radix 10
toString(b) == DigitsV(b.neg, IF b.mag = << >> THEN <<0>> ELSE DecimalDigits(b.mag))

RECURSIVE ParseDigits(_, _, _)
\* StringToBigInt: the magnitude of a digit sequence, by Horner's rule
ParseDigits(d, idx, acc) ==
    IF idx > Len(d) THEN acc
    ELSE ParseDigits(d, idx + 1, MulAddLimbs(acc, 10, d[idx], 1, << >>))

\* BigInt(value) throws: a TypeError for null and undefined, a SyntaxError
\* for a string that is not an integer literal or for an object
BigIntThrows(v) ==
    \/ IsNullish(v)
    \/ v.t = "prim" /\ v.v \notin {"", "true", "false"}
    \/ v.t \in {"obj", "arr", "ref"}

\* BigInt(value) where it does not throw
BigInt(v) ==
    CASE v.t = "digits" -> BigIntV(v.neg, ParseDigits(v.d, 1, << >>))
      [] v.t = "bigint" -> v
      [] v.t = "num" -> BigIntV(v.n < 0, LimbsOf(IF v.n < 0 THEN -v.n ELSE v.n))
      [] v.t = "prim" -> BigIntV(FALSE, IF v.v = "true" THEN <<1>> ELSE << >>)
      [] OTHER -> v

----------------------------------------------------------------------------
(* Class declarations: the prototype chain of the constructors *)

BuiltinCtors == {"String", "Number", "Boolean", "BigInt"}
UserCtors == {"Animal", "FourLegged", "Cat", "Foo", "Bar", "Baz", "Settings", "Account"}
Ctors == BuiltinCtors \cup UserCtors

\* Object.getPrototypeOf(ctor) for a class: the class it extends ("" when it
\* extends nothing: Function.prototype carries no descriptor)
SuperOf(c) ==
    CASE c = "FourLegged" -> "Animal"
      [] c = "Cat" -> "FourLegged"
      [] c = "Bar" -> "Foo"
      [] c = "Baz" -> "Foo"
      [] OTHER -> ""

\* ctor.name, the default classNameResolver
ClassName(c) == c

\* the properties a no-argument construction leaves on a new instance
FieldInit(c) ==
    CASE c \in {"Animal", "FourLegged", "Cat"} -> <<Fld("name", Prim("n0"))>>
      [] c \in {"Foo", "Bar", "Baz"} -> <<Fld("name", Prim("n0"))>>
      [] OTHER -> << >>

----------------------------------------------------------------------------
(* metadata.ts *)

NoData == [has |-> FALSE, name |-> "", ctor |-> "", ser |-> "", deser |-> "",
           props |-> << >>]
Builtin == [NoData EXCEPT !.has = TRUE, !.deser = "identity"]

PropData(type, kct, vct) == [type |-> type, kct |-> kct, vct |-> vct, ser |-> "", deser |-> ""]

Names == {"Animal", "FourLegged", "Cat", "Foo", "Bar", "Baz", "Settings", "Account", "Pet"}

InitialByCtor ==
    [c \in Ctors |-> IF c = "BigInt" THEN [Builtin EXCEPT !.deser = "BigInt"]
                     ELSE IF c \in BuiltinCtors THEN Builtin ELSE NoData]
InitialByName == [n \in Names |-> ""]
InitialProto == [c \in Ctors |-> ""]
EmptyRegistry == [byCtor |-> InitialByCtor, byName |-> InitialByName, proto |-> InitialProto]

ensureJsonClassData(R, ctor) ==
    IF R.byCtor[ctor].has THEN R
    ELSE [R EXCEPT !.byCtor[ctor] = [NoData EXCEPT !.has = TRUE]]

setPropertyInternal(R, ctor, key, pd) ==
    LET R1 == ensureJsonClassData(R, ctor)
    IN [R1 EXCEPT !.byCtor[ctor].props = Put(@, key, pd)]

\* a registration that leaves classDataByName alone
jsonClass_byCtorOnly(R, ctor, name, ser, deser) ==
    LET R1 == ensureJsonClassData(R, ctor)
        n == IF name = "null" THEN ""
             ELSE IF name # "" THEN name ELSE ClassName(ctor)
    IN [R1 EXCEPT !.byCtor[ctor].name = n,
                  !.byCtor[ctor].ctor = ctor,
                  !.byCtor[ctor].ser = ser,
                  !.byCtor[ctor].deser = deser,
                  !.proto[ctor] = ctor]

\* name: "" for undefined (the class name is used), "null" for null (no name)
\* a registration that starts the descriptor anew
jsonClass_newData(R, ctor, name, ser, deser) ==
    LET n == IF name = "null" THEN ""
             ELSE IF name # "" THEN name ELSE ClassName(ctor)
        R2 == [R EXCEPT !.byCtor[ctor] = [NoData EXCEPT !.has = TRUE, !.name = n,
                                                         !.ctor = ctor, !.ser = ser,
                                                         !.deser = deser],
                        !.proto[ctor] = ctor]
    IN IF n # "" THEN [R2 EXCEPT !.byName[n] = ctor] ELSE R2

jsonClass(R, ctor, name, ser, deser) ==
    LET R1 == ensureJsonClassData(R, ctor)
        n == IF name = "null" THEN ""
             ELSE IF name # "" THEN name ELSE ClassName(ctor)
        R2 == [R1 EXCEPT !.byCtor[ctor].name = n,
                         !.byCtor[ctor].ctor = ctor,
                         !.byCtor[ctor].ser = ser,
                         !.byCtor[ctor].deser = deser,
                         !.proto[ctor] = ctor]
    IN IF n # "" THEN [R2 EXCEPT !.byName[n] = ctor] ELSE R2

\* value[ClassDataSymbol] for an instance of ctor: the nearest prototype that
\* has the symbol as own property
RECURSIVE ProtoLookup(_, _)
ProtoLookup(R, ctor) ==
    IF ctor = "" THEN ""
    ELSE IF R.proto[ctor] # "" THEN R.proto[ctor]
    ELSE ProtoLookup(R, SuperOf(ctor))

----------------------------------------------------------------------------
(* types.ts *)

\* propertyHasValueCtor / propertyHasKeyCtor: the type guards over the
\* JsonProperty union (every kind but 'any' has valueCtorOrThunk, only 'map'
\* has keyCtorOrThunk)
propertyHasValueCtor(pd) == pd.type \in {"class", "array", "set", "map"}
propertyHasKeyCtor(pd) == pd.type = "map"

NoProp == [type |-> "none", kct |-> "", vct |-> "", ser |-> "", deser |-> ""]

----------------------------------------------------------------------------
(* JsonClassSerializer: options and lookups *)

defaultOptions ==
    [serializationPropertyName |-> "#type",
     deserializationClassResolver |-> "typeProperty",
     useGlobalClassRegistry |-> TRUE,
     additionalClassesToConsider |-> [thunk |-> FALSE, e |-> << >>],
     failIfTypeResolutionFails |-> TRUE,
     failIfRootClassNotFound |-> FALSE,
     failIfPlainObjectsFound |-> FALSE,
     mapSerializationStrategy |-> "arrayOfEntries",
     circularDependencyReferencePropertyName |-> ""]

\* the static fields of the class before the application assigns any
InitialStatics == staticOptions = defaultOptions /\ defaultInstance = 0

\* { ...options, ...defaults }: the defaults written last
Spread_defaultsLast(defaults, options) == defaults

\* { ...defaults, ...options }: a copy of the defaults in which the fields
\* that options names are overwritten (options is a list of fields)
Spread(defaults, options) ==
    [f \in DOMAIN defaults |-> IF HasKey(options, f) THEN Lookup(options, f) ELSE defaults[f]]

\* new JsonClassSerializer(options): the fields of a fresh instance
NewInstance(options) ==
    [options |-> options,
     encounteredObjectPathsInSerialization |-> << >>,
     encounteredReferencePathsInDeserialization |-> << >>,
     rootSerializationObjRef |-> Undef]

\* the write of getClassDataByCtor: a descriptor without ctor and without
\* deserializer gets its ctor set
\* the write, and the name of the type as the descriptor's name too
TouchCtor_named(R, ctor) ==
    IF ctor # "" /\ R.byCtor[ctor].has /\ R.byCtor[ctor].ctor = ""
       /\ R.byCtor[ctor].deser = ""
    THEN [R EXCEPT !.byCtor[ctor].ctor = ctor, !.byCtor[ctor].name = ctor]
    ELSE R

TouchCtor(R, ctor) ==
    IF ctor # "" /\ R.byCtor[ctor].has /\ R.byCtor[ctor].ctor = ""
       /\ R.byCtor[ctor].deser = ""
    THEN [R EXCEPT !.byCtor[ctor].ctor = ctor]
    ELSE R

\* the descriptor getClassDataByCtor returns ("" for undefined)
getClassDataByCtor(R, ctor) ==
    IF ctor = "" THEN ""
    ELSE IF R.byCtor[ctor].has THEN ctor ELSE ""

\* `name in f` for an arrow function f: its own and inherited property names
\* (of which the model has these two)
FunctionKeys == {"name", "length"}

\* `name in this.options.additionalClassesToConsider`: the option is a record
\* of constructors by name or a thunk that returns one, and the test is made
\* on the option itself, before resolveThunk
InAdditionalClasses(o, name) ==
    IF o.additionalClassesToConsider.thunk THEN name \in FunctionKeys
    ELSE HasKey(o.additionalClassesToConsider.e, name)

\* the constructor getClassDataByName looks up first, "" when the test fails
\* or the record has no such key
AdditionalCtor(o, name) ==
    IF InAdditionalClasses(o, name) /\ HasKey(o.additionalClassesToConsider.e, name)
    THEN Lookup(o.additionalClassesToConsider.e, name).v
    ELSE ""

getClassDataByName(o, R, name) ==
    IF name = "" THEN ""
    ELSE IF getClassDataByCtor(R, AdditionalCtor(o, name)) # ""
         THEN getClassDataByCtor(R, AdditionalCtor(o, name))
    ELSE IF o.useGlobalClassRegistry /\ name \in DOMAIN R.byName
         THEN R.byName[name]
    ELSE ""

RECURSIVE AddAbsent(_, _)
\* for (property of jsonData.properties) if (!properties.has(key)) properties.set(...)
AddAbsent(own, acc) ==
    IF own = << >> THEN acc
    ELSE AddAbsent(Tail(own),
                   IF HasKey(acc, Head(own).key) THEN acc ELSE Append(acc, Head(own)))

RECURSIVE addPropertiesForClass_stopAtGap(_, _, _, _)
\* a walk that ends at the first ancestor without a descriptor
addPropertiesForClass_stopAtGap(R, jsonData, ctor, acc) ==
    LET superClass == IF ctor = "" THEN "" ELSE SuperOf(ctor)
    IN AddAbsent(IF jsonData = "" THEN << >> ELSE R.byCtor[jsonData].props,
                 IF superClass # "" /\ R.byCtor[superClass].has
                 THEN addPropertiesForClass_stopAtGap(R, superClass, superClass, acc)
                 ELSE acc)

RECURSIVE addPropertiesForClass(_, _, _, _)
addPropertiesForClass(R, jsonData, ctor, acc) ==
    LET superClass == IF ctor = "" THEN "" ELSE SuperOf(ctor)
    IN AddAbsent(IF jsonData = "" THEN << >> ELSE R.byCtor[jsonData].props,
                 IF superClass # ""
                 THEN addPropertiesForClass(R,
                          IF R.byCtor[superClass].has THEN superClass ELSE "",
                          superClass, acc)
                 ELSE acc)

\* the effective properties of a descriptor, as a list of (key, property data)
getAllProperties(R, jsonData) ==
    addPropertiesForClass(R, jsonData,
                          IF jsonData = "" THEN "" ELSE R.byCtor[jsonData].ctor,
                          << >>)

\* typeof v is 'string'
IsString(v) == v.t = "prim" /\ v.v \notin {"true", "false"}

\* Number(s) of the strings "1" and "2"; NaN is the string "NaN" here
NumberOf(s) == IF s = "1" THEN Num(1) ELSE IF s = "2" THEN Num(2) ELSE Prim("NaN")

\* value.split(' ') of the strings the scenarios use
SplitAt(s) ==
    CASE s = "USD 1" -> <<"USD", "1">>
      [] s = "EUR 2" -> <<"EUR", "2">>
      [] OTHER -> <<s, "">>

\* (value: string) => { const [currency, balanceStr] = value.split(' ');
\*                      return { currency, balance: Number(balanceStr) } }
splitAccount(v) ==
    IF IsString(v)
    THEN ObjV(<<Fld("currency", Prim(SplitAt(v.v)[1])),
                Fld("balance", NumberOf(SplitAt(v.v)[2]))>>)
    ELSE Undef

\* options.serializer / options.deserializer hooks, by name: "identity" is
\* the deserializer of the built-in String / Number / Boolean descriptors,
\* "BigInt" the deserializer of the built-in BigInt descriptor, "hooked" a
\* user hook that maps every value to one string, "split" the deserializer
\* of the class Account of the tests
ApplyHook(h, v) ==
    IF h = "hooked" THEN Prim("hooked")
    ELSE IF h = "BigInt" THEN BigInt(v)
    ELSE IF h = "split" THEN splitAccount(v)
    ELSE v
\* the hook throws
HookThrows(h, v) ==
    \/ h = "BigInt" /\ BigIntThrows(v)
    \/ h = "split" /\ ~IsString(v)     \* value.split is not a function

----------------------------------------------------------------------------
(* utils.ts: getInObjectFromPath *)

Ok(val, st) == [ok |-> TRUE, val |-> val, err |-> "", st |-> st]
Fail(err, st) == [ok |-> FALSE, val |-> Undef, err |-> err, st |-> st]

IsPairSeg(seg) == seg.t = "arr"

\* one step of the loop: the value at `key` of `current`, or the error thrown
GetStep(H, current, key) ==
    LET o == IF current.t = "ref" THEN H[current.id] ELSE [k |-> "inline"]
        isMap == current.t = "ref" /\ o.k = "map"
        isSet == current.t = "ref" /\ o.k = "set"
    IN IF IsPairSeg(key)
       THEN IF ~isMap THEN [ok |-> FALSE, val |-> Undef]
            ELSE LET i == key.e[1].n + 1
                     slot == key.e[2].n
                 IN IF i > Len(o.m) THEN [ok |-> FALSE, val |-> Undef]
                    ELSE [ok |-> TRUE,
                          val |-> IF slot = 0 THEN o.m[i].key
                                  ELSE IF slot = 1 THEN o.m[i].val ELSE Undef]
       ELSE IF isSet
       THEN [ok |-> TRUE,
             val |-> IF key.t = "num" /\ key.n + 1 <= Len(o.e) THEN o.e[key.n + 1] ELSE Undef]
       ELSE IF current.t = "ref" /\ o.k = "arr"
       THEN [ok |-> TRUE,
             val |-> IF key.t = "num" /\ key.n + 1 <= Len(o.e) THEN o.e[key.n + 1] ELSE Undef]
       ELSE IF current.t = "ref" /\ o.k \in {"inst", "plain"}
       THEN [ok |-> TRUE, val |-> IF key.t = "prim" THEN Lookup(o.f, key.v) ELSE Undef]
       ELSE IF current.t = "arr"
       THEN [ok |-> TRUE,
             val |-> IF key.t = "num" /\ key.n + 1 <= Len(current.e)
                     THEN current.e[key.n + 1] ELSE Undef]
       ELSE IF current.t = "obj"
       THEN [ok |-> TRUE, val |-> IF key.t = "prim" THEN Lookup(current.e, key.v) ELSE Undef]
       ELSE [ok |-> TRUE, val |-> Undef]   \* a Map or a primitive has no such property

RECURSIVE getInObjectFromPath(_, _, _)
\* [ok, val]: the value at path, or ok = FALSE when the walk throws
getInObjectFromPath(H, obj, path) ==
    IF path = << >> THEN [ok |-> TRUE, val |-> obj]
    ELSE LET Descend(step) ==
                 IF ~step.ok \/ Falsy(step.val) THEN [ok |-> FALSE, val |-> Undef]
                 ELSE getInObjectFromPath(H, step.val, Tail(path))
         IN Descend(GetStep(H, obj, Head(path)))

----------------------------------------------------------------------------
(* JsonClassSerializer: serialization.                                      *)
(* E is the call's environment [H: the live heap, o: the instance options, *)
(* inHook: the call is made by a property serializer, root: the value the  *)
(* call serializes]; st is the state the                                   *)
(* walk writes, [enc: encounteredObjectPathsInSerialization, rootRef:       *)
(* rootSerializationObjRef, R: the registry].                               *)

\* a marker that refers to the root, whatever was visited
Marker_toRoot(o, refPath) == ObjV(<<Fld(o.circularDependencyReferencePropertyName, ArrV(<< >>))>>)
Marker(o, refPath) == ObjV(<<Fld(o.circularDependencyReferencePropertyName, ArrV(refPath))>>)

RECURSIVE AncestorScan(_, _, _, _, _)
\* the loop over the prefixes of path (lines 203-211): "circular" when a
\* prefix leads to value, "path" when getInObjectFromPath throws, else ""
AncestorScan(E, rootObj, value, path, pathLen) ==
    IF pathLen >= Len(path) THEN ""
    ELSE LET Compare(parentValue) ==
                 IF ~parentValue.ok THEN "path"
                 ELSE IF parentValue.val = value THEN "circular"
                 ELSE AncestorScan(E, rootObj, value, path, pathLen + 1)
         IN Compare(getInObjectFromPath(E.H, rootObj, SubSeq(path, 1, pathLen)))

\* value.constructor of a live object
CtorOf(obj) == IF obj.k = "inst" THEN obj.cls ELSE "Object"

\* the descriptor serializeObject settles on (lines 286-297) and the registry
\* after its lookups
SerClassData(E, R, ctor) ==
    LET c == IF ctor \in Ctors THEN ctor ELSE ""
        direct == IF getClassDataByCtor(R, c) # "" THEN getClassDataByCtor(R, c)
                  ELSE ProtoLookup(R, c)
        resolvedType == ClassName(ctor)
    IN IF direct # "" THEN [jsonData |-> direct, R |-> TouchCtor(R, c)]
       ELSE [jsonData |-> getClassDataByName(E.o, R, resolvedType),
             R |-> TouchCtor(R, AdditionalCtor(E.o, resolvedType))]

\* a serializer that tags every instance
needsTypeProperty_always(owningPropertyData, asKeyOrValue, ctor) == TRUE

\* a serializer that tags only the values no property declares
needsTypeProperty_untypedOnly(owningPropertyData, asKeyOrValue, ctor) ==
    owningPropertyData.type = "none"

needsTypeProperty(owningPropertyData, asKeyOrValue, ctor) ==
    \/ owningPropertyData.type = "none"
    \/ /\ asKeyOrValue = "key"
       /\ propertyHasKeyCtor(owningPropertyData)
       /\ owningPropertyData.kct # ctor
    \/ /\ asKeyOrValue = "value"
       /\ propertyHasValueCtor(owningPropertyData)
       /\ owningPropertyData.vct # ctor

\* the check of lines 324-335
\* the check without its test of truthiness: typeof null is 'object'
AmbiguousProperty_nullToo(propValue, propData) ==
    /\ propValue.t \in {"ref", "obj", "arr", "null"}
    /\ propertyHasValueCtor(propData)
    /\ propData.vct = ""
    /\ propData.deser = ""

AmbiguousProperty(propValue, propData) ==
    /\ propValue.t \in {"ref", "obj", "arr"}
    /\ propertyHasValueCtor(propData)
    /\ propData.vct = ""
    /\ propData.deser = ""

MapEntry(o, serializedKey, serializedValue) ==
    IF o.mapSerializationStrategy = "arrayOfEntries"
    THEN ArrV(<<serializedKey, serializedValue>>)
    ELSE ObjV(<<Fld("key", serializedKey), Fld("value", serializedValue)>>)

KnownStrategy(o) == o.mapSerializationStrategy \in {"arrayOfEntries", "arrayOfKeyValueObjects"}

RECURSIVE serializeToObjectInternal(_, _, _, _, _, _)
RECURSIVE serializeItems(_, _, _, _, _, _, _)
RECURSIVE serializeEntries(_, _, _, _, _, _, _)
RECURSIVE serializeProperties(_, _, _, _, _, _, _)
RECURSIVE serializeKeys(_, _, _, _, _, _)
RECURSIVE InnerCall(_, _, _, _)

\* serializeArray / serializeSet: items[idx..] appended to acc
serializeItems(E, items, idx, path, owningPropertyData, st, acc) ==
    IF idx > Len(items) THEN Ok(ArrV(acc), st)
    ELSE LET Then(r) ==
                 IF ~r.ok THEN r
                 ELSE serializeItems(E, items, idx + 1, path, owningPropertyData, r.st,
                                     Append(acc, r.val))
         IN Then(serializeToObjectInternal(E, items[idx], Append(path, IdxSeg(idx - 1)),
                                           owningPropertyData, "value", st))

\* the path of a map entry's key (slot 0) or value (slot 1): path.concat(idx, slot)
EntryPath(path, idx, slot) == path \o <<IdxSeg(idx), IdxSeg(slot)>>

\* serializeMap
serializeEntries(E, entries, idx, path, owningPropertyData, st, acc) ==
    IF idx > Len(entries) THEN Ok(ArrV(acc), st)
    ELSE LET WithValue(k, v) ==
                 IF ~v.ok THEN v
                 ELSE IF ~KnownStrategy(E.o) THEN Fail("strategy", v.st)
                 ELSE serializeEntries(E, entries, idx + 1, path, owningPropertyData,
                                       v.st, Append(acc, MapEntry(E.o, k.val, v.val)))
             WithKey(k) ==
                 IF ~k.ok THEN k
                 ELSE WithValue(k, serializeToObjectInternal(E, entries[idx].val,
                                                             EntryPath(path, idx - 1, 1),
                                                             owningPropertyData, "value", k.st))
         IN WithKey(serializeToObjectInternal(E, entries[idx].key,
                                              EntryPath(path, idx - 1, 0),
                                              owningPropertyData, "key", st))

\* a hook whose call never touches the serializer that is walking
InnerCall_isolated(E, hook, value, st) ==
    LET rootRef == IF value.t = "ref" THEN value ELSE Undef
        Returned(r) ==
            [ok |-> r.ok, val |-> r.val, err |-> r.err, st |-> [st EXCEPT !.R = r.st.R]]
    IN IF E.inHook THEN Fail("RangeError", st)
       ELSE Returned(serializeToObjectInternal([E EXCEPT !.inHook = TRUE, !.root = value],
                                               value, << >>,
                                               NoProp, "value",
                                               [enc |-> << >>, rootRef |-> rootRef,
                                                R |-> st.R]))

\* A property serializer that serializes the value with a serializer of its
\* own, the application's hook `value => s.serializeToObject(value)`:
\* "reenter" when s is the serializer that is walking, "delegate" when s is
\* another one, with the same options.  serializeToObject (lines 162-175)
\* replaces the visited objects of s, sets its root reference, walks, and
\* clears the root reference when the walk returns.  A hook that is reached
\* inside its own call is reached there again, without end: RangeError.
InnerCall(E, hook, value, st) ==
    LET rootRef == IF value.t = "ref" THEN value
                   ELSE IF hook = "reenter" THEN st.rootRef ELSE Undef
        Returned(r) ==
            [ok |-> r.ok, val |-> r.val, err |-> r.err,
             st |-> IF hook = "reenter"
                    THEN [r.st EXCEPT !.rootRef = IF r.ok THEN Undef ELSE @]
                    ELSE [st EXCEPT !.R = r.st.R]]
    IN IF E.inHook THEN Fail("RangeError", st)
       ELSE Returned(serializeToObjectInternal([E EXCEPT !.inHook = TRUE, !.root = value],
                                               value, << >>,
                                               NoProp, "value",
                                               [enc |-> << >>, rootRef |-> rootRef,
                                                R |-> st.R]))

\* the loop over getAllProperties(jsonData) of serializeObject
serializeProperties(E, fields, props, idx, path, st, acc) ==
    IF idx > Len(props) THEN Ok(ObjV(acc), st)
    ELSE LET key == props[idx].key
             propData == props[idx].val
             propValue == Lookup(fields, key)
             Then(r) ==
                 IF ~r.ok THEN r
                 ELSE serializeProperties(E, fields, props, idx + 1, path, r.st,
                                          Put(acc, key, r.val))
             Hooked(h) ==
                 IF ~h.ok THEN h
                 ELSE Then(serializeToObjectInternal(E, h.val, Append(path, KeySeg(key)),
                                                     propData, "value", h.st))
         IN IF AmbiguousProperty(propValue, propData) THEN Fail("ambiguous", st)
            ELSE IF propData.ser \in {"reenter", "delegate"}
            THEN Hooked(InnerCall(E, propData.ser, propValue, st))
            ELSE Then(serializeToObjectInternal(E, ApplyHook(propData.ser, propValue),
                                                Append(path, KeySeg(key)),
                                                propData, "value", st))

\* the loop `for (const key in value)` of serializeObject
serializeKeys(E, fields, idx, path, st, acc) ==
    IF idx > Len(fields) THEN Ok(ObjV(acc), st)
    ELSE LET Then(r) ==
                 IF ~r.ok THEN r
                 ELSE serializeKeys(E, fields, idx + 1, path, r.st,
                                    Put(acc, fields[idx].key, r.val))
         IN Then(serializeToObjectInternal(E, fields[idx].val,
                                           Append(path, KeySeg(fields[idx].key)),
                                           NoProp, "value", st))

serializeObject(E, obj, path, owningPropertyData, asKeyOrValue, st) ==
    LET WithClassData(ctor, jsonData, R) ==
            IF jsonData # ""
            THEN IF R.byCtor[jsonData].ser # ""
                 THEN serializeToObjectInternal(E, ApplyHook(R.byCtor[jsonData].ser, Null),
                                                path, owningPropertyData, "value",
                                                [st EXCEPT !.R = R])
                 ELSE serializeProperties(E, obj.f, getAllProperties(R, jsonData), 1, path,
                          [st EXCEPT !.R = R],
                          IF needsTypeProperty(owningPropertyData, asKeyOrValue, ctor)
                          THEN <<Fld(E.o.serializationPropertyName,
                                     IF R.byCtor[jsonData].name = "" THEN Undef
                                     ELSE Prim(R.byCtor[jsonData].name))>>
                          ELSE << >>)
            ELSE serializeKeys(E, obj.f, 1, path, [st EXCEPT !.R = R], << >>)
        Resolved(ctor, cd) == WithClassData(ctor, cd.jsonData, cd.R)
    IN Resolved(CtorOf(obj), SerClassData(E, st.R, CtorOf(obj)))

serializeToObjectInternal(E, value, path, owningPropertyData, asKeyOrValue, st) ==
    IF IsNullish(value) \/ IsPrimitive(value) THEN Ok(value, st)
    ELSE IF value.t = "bigint" THEN Ok(toString(value), st)
    ELSE IF IsInlineObject(value) THEN Ok(value, st)   \* new plain data: a copy of it
    ELSE LET seen == value.id \in DOMAIN st.enc
             refName == E.o.circularDependencyReferencePropertyName
             Visit(obj, st1) ==
                 CASE obj.k \in {"arr", "set"} ->
                          serializeItems(E, obj.e, 1, path, owningPropertyData, st1, << >>)
                   [] obj.k = "map" ->
                          serializeEntries(E, obj.m, 1, path, owningPropertyData, st1, << >>)
                   [] OTHER ->
                          serializeObject(E, obj, path, owningPropertyData, asKeyOrValue, st1)
             Scanned(scan) ==
                 IF scan # "" THEN Fail(scan, st)
                 ELSE Visit(E.H[value.id], [st EXCEPT !.enc = (value.id :> path) @@ @])
         IN IF seen /\ refName # "" THEN Ok(Marker(E.o, st.enc[value.id]), st)
            ELSE Scanned(IF seen /\ refName = "" /\ st.rootRef.t = "ref"
                         THEN AncestorScan(E, st.rootRef, value, path, 0)
                         ELSE IF seen /\ AncestorScan(E, E.root, value, path, 0) = "circular"
                         THEN "RangeError"   \* the walk is inside value and enters it
                                             \* again, unchecked: it does so without end
                         ELSE "")

\* a call that goes on with the visited objects of the call before
serializeToObject_keepVisited(H, j, R, value) ==
    LET rootRef == IF value.t = "ref" THEN value ELSE j.rootSerializationObjRef
        E == [H |-> H, o |-> j.options, inHook |-> FALSE, root |-> value]
        Finish(r) ==
            [out |-> [ok |-> r.ok, val |-> r.val, err |-> r.err],
             j |-> [j EXCEPT !.encounteredObjectPathsInSerialization = r.st.enc,
                             !.rootSerializationObjRef =
                                 IF r.ok THEN Undef ELSE r.st.rootRef],
             R |-> r.st.R]
    IN Finish(serializeToObjectInternal(E, value, << >>, NoProp, "value",
                  [enc |-> j.encounteredObjectPathsInSerialization, rootRef |-> rootRef,
                   R |-> R]))

\* serializeToObject(value) on instance fields j with the registry R:
\* [out: the outcome, j: the instance afterwards, R: the registry afterwards]
serializeToObject(H, j, R, value) ==
    LET rootRef == IF value.t = "ref" THEN value ELSE j.rootSerializationObjRef
        E == [H |-> H, o |-> j.options, inHook |-> FALSE, root |-> value]
        Finish(r) ==
            [out |-> [ok |-> r.ok, val |-> r.val, err |-> r.err],
             j |-> [j EXCEPT !.encounteredObjectPathsInSerialization = r.st.enc,
                             !.rootSerializationObjRef =
                                 IF r.ok THEN Undef ELSE r.st.rootRef],
             R |-> r.st.R]
    IN Finish(serializeToObjectInternal(E, value, << >>, NoProp, "value",
                                        [enc |-> << >>, rootRef |-> rootRef, R |-> R]))

----------------------------------------------------------------------------
(* utils.ts: setInObjectFromPath *)

Front(path) == SubSeq(path, 1, Len(path) - 1)


RECURSIVE NewMap(_, _)
\* new Map(entries): a key that is already present (SameValueZero) keeps its
\* position and takes the later value
NewMap(entries, acc) ==
    IF entries = << >> THEN acc
    ELSE LET h == Head(entries)
         IN NewMap(Tail(entries),
                   IF IsInlineObject(h.key) THEN Append(acc, h) ELSE Put(acc, h.key, h.val))

RECURSIVE NewSet(_, _)
NewSet(members, acc) ==
    IF members = << >> THEN acc
    ELSE LET h == Head(members)
         IN NewSet(Tail(members),
                   IF ~IsInlineObject(h) /\ \E i \in 1..Len(acc) : acc[i] = h
                   THEN acc ELSE Append(acc, h))

\* Reflect.set(parent, property, value) on the object parent refers to
ReflectSet(H, parent, property, value) ==
    LET o == H[parent.id]
    IN CASE o.k \in {"inst", "plain"} /\ property.t = "prim" ->
                [H EXCEPT ![parent.id].f = Put(@, property.v, value)]
         [] o.k = "arr" /\ property.t = "num" /\ property.n + 1 <= Len(o.e) ->
                [H EXCEPT ![parent.id].e[property.n + 1] = value]
         [] OTHER -> H   \* an expando property no walk of the model reads

\* members[i] = value on the array [...parent]
SetAt(members, i, value) ==
    [j \in 1..(IF i > Len(members) THEN i ELSE Len(members)) |->
        IF j = i THEN value ELSE IF j <= Len(members) THEN members[j] ELSE Undef]

RECURSIVE setInObjectFromPath(_, _, _, _)
\* [ok, H, err]: the heap after the write, or ok = FALSE when the call throws
\* ("path": getInObjectFromPath threw, "map": the parent is no Map or has no
\* such entry, "inline": the parent is no object of the heap)
setInObjectFromPath(H, obj, path, value) ==
    LET property == path[Len(path)]
        \* the write into the object p that `parent` refers to
        Write(parent, p) ==
            IF IsPairSeg(property)
            THEN IF p.k # "map" \/ property.e[1].n + 1 > Len(p.m)
                 THEN [ok |-> FALSE, H |-> H, err |-> "map"]
                 ELSE IF property.e[2].n = 1
                 THEN [ok |-> TRUE, err |-> "",
                       H |-> [H EXCEPT ![parent.id].m[property.e[1].n + 1].val = value]]
                 ELSE setInObjectFromPath(
                          Append(H, [k |-> "map",
                                     m |-> NewMap([p.m EXCEPT ![property.e[1].n + 1].key = value],
                                                  << >>)]),
                          obj, Front(path), Ref(Len(H) + 1))
            ELSE IF p.k = "set"
            THEN setInObjectFromPath(
                     Append(H, [k |-> "set",
                                e |-> NewSet(IF property.t = "num"
                                             THEN SetAt(p.e, property.n + 1, value) ELSE p.e,
                                             << >>)]),
                     obj, Front(path), Ref(Len(H) + 1))
            ELSE [ok |-> TRUE, err |-> "", H |-> ReflectSet(H, parent, property, value)]
        WithParent(parent) ==
            IF ~parent.ok THEN [ok |-> FALSE, H |-> H, err |-> "path"]
            ELSE IF parent.val.t # "ref" THEN [ok |-> FALSE, H |-> H, err |-> "inline"]
            ELSE Write(parent.val, H[parent.val.id])
    IN WithParent(getInObjectFromPath(H, obj, Front(path)))

----------------------------------------------------------------------------
(* JsonClassSerializer: deserialization.                                    *)
(* The raw input is a tree written inline (what JSON.parse or              *)
(* serializeToObject returns: no node occurs twice, so the lookup in       *)
(* encounteredInputObjectPathsInDeserialization never hits).  st is the    *)
(* state the walk writes: [R: the registry, H: the heap of the objects     *)
(* built, refs: encounteredReferencePathsInDeserialization].               *)

\* value?.[name] of a raw value
RawGet(value, name) == IF value.t = "obj" THEN Lookup(value.e, name) ELSE Undef

\* a test that finds every key
RawIn_always(value, key) == [ok |-> TRUE, has |-> TRUE]

\* `key in value`: [ok, has], ok = FALSE for the TypeError on a primitive
RawIn(value, key) ==
    IF value.t = "obj" THEN [ok |-> TRUE, has |-> HasKey(value.e, key)]
    ELSE IF value.t = "arr" THEN [ok |-> TRUE, has |-> FALSE]
    ELSE [ok |-> FALSE, has |-> FALSE]

\* options.deserializationClassResolver: the default reads the type property
ResolveType(o, value) ==
    IF o.deserializationClassResolver = "typeProperty"
    THEN RawGet(value, o.serializationPropertyName)
    ELSE Undef

\* a resolution that never fails
DetermineClassData_lenient(o, R, value, valueClassData) ==
    LET needToDetermineClassData == valueClassData = "" \/ IsInlineObject(value)
        Checked(resolvedType, vcd, R1) == [ok |-> TRUE, vcd |-> vcd, R |-> R1]
        Resolved(resolvedType) ==
            IF resolvedType.t = "prim" /\ resolvedType.v \notin {"true", "false"}
            THEN Checked(resolvedType, getClassDataByName(o, R, resolvedType.v),
                         TouchCtor(R, AdditionalCtor(o, resolvedType.v)))
            ELSE IF ~Falsy(resolvedType)
            THEN Checked(resolvedType, "", R)
            ELSE Checked(resolvedType, valueClassData, R)
    IN IF ~needToDetermineClassData THEN [ok |-> TRUE, vcd |-> valueClassData, R |-> R]
       ELSE Resolved(ResolveType(o, value))

\* lines 554-575 of deserializeObject: [ok, vcd, R]
\* the type field is read only when no target type is given
DetermineClassData_targetWins(o, R, value, valueClassData) ==
    LET needToDetermineClassData == valueClassData = ""
        Checked(resolvedType, vcd, R1) ==
            [ok |-> ~(~Falsy(resolvedType) /\ vcd = "" /\ o.failIfTypeResolutionFails),
             vcd |-> vcd, R |-> R1]
        Resolved(resolvedType) ==
            IF resolvedType.t = "prim" /\ resolvedType.v \notin {"true", "false"}
            THEN Checked(resolvedType, getClassDataByName(o, R, resolvedType.v),
                         TouchCtor(R, AdditionalCtor(o, resolvedType.v)))
            ELSE IF ~Falsy(resolvedType)
            THEN Checked(resolvedType, "", R)
            ELSE Checked(resolvedType, valueClassData, R)
    IN IF ~needToDetermineClassData THEN [ok |-> TRUE, vcd |-> valueClassData, R |-> R]
       ELSE Resolved(ResolveType(o, value))

DetermineClassData(o, R, value, valueClassData) ==
    LET needToDetermineClassData == valueClassData = "" \/ IsInlineObject(value)
        Checked(resolvedType, vcd, R1) ==
            [ok |-> ~(~Falsy(resolvedType) /\ vcd = "" /\ o.failIfTypeResolutionFails),
             vcd |-> vcd, R |-> R1]
        Resolved(resolvedType) ==
            IF resolvedType.t = "prim" /\ resolvedType.v \notin {"true", "false"}
            THEN Checked(resolvedType, getClassDataByName(o, R, resolvedType.v),
                         TouchCtor(R, AdditionalCtor(o, resolvedType.v)))
            ELSE IF ~Falsy(resolvedType)
            THEN Checked(resolvedType, "", R)   \* no constructor: the WeakMap misses
            ELSE Checked(resolvedType, valueClassData, R)
    IN IF ~needToDetermineClassData THEN [ok |-> TRUE, vcd |-> valueClassData, R |-> R]
       ELSE Resolved(ResolveType(o, value))

\* a reading that takes every element for a [key, value] array
EntryOf_arraysOnly(entry) ==
    IF entry.t = "arr"
    THEN [ok |-> TRUE,
          key |-> IF Len(entry.e) >= 1 THEN entry.e[1] ELSE Undef,
          val |-> IF Len(entry.e) >= 2 THEN entry.e[2] ELSE Undef]
    ELSE IF IsNullish(entry) THEN [ok |-> FALSE, key |-> Undef, val |-> Undef]
    ELSE [ok |-> TRUE, key |-> Undef, val |-> Undef]

\* [key, value] of one element of a serialized map: [ok, key, val]
EntryOf(entry) ==
    IF entry.t = "arr"
    THEN [ok |-> TRUE,
          key |-> IF Len(entry.e) >= 1 THEN entry.e[1] ELSE Undef,
          val |-> IF Len(entry.e) >= 2 THEN entry.e[2] ELSE Undef]
    ELSE IF IsNullish(entry) THEN [ok |-> FALSE, key |-> Undef, val |-> Undef]
    ELSE [ok |-> TRUE, key |-> RawGet(entry, "key"), val |-> RawGet(entry, "value")]

\* new valueClassData.ctor(): the heap with the new instance appended
Construct(H, ctor) == Append(H, [k |-> "inst", cls |-> ctor, f |-> FieldInit(ctor)])

RECURSIVE deserializeFromObjectInternal(_, _, _, _, _, _)
RECURSIVE deserializeItems(_, _, _, _, _, _, _, _)
RECURSIVE deserializeEntries(_, _, _, _, _, _, _, _)
RECURSIVE deserializeProperties(_, _, _, _, _, _, _)
RECURSIVE deserializeKeys(_, _, _, _, _, _)

\* value.map(...) of deserializeArray: items[idx..] appended to acc; the
\* result is the list of the deserialized items
deserializeItems(o, items, idx, path, valueClassData, failIfClassNotFound, st, acc) ==
    IF idx > Len(items) THEN Ok(acc, st)
    ELSE LET Then(r) ==
                 IF ~r.ok THEN r
                 ELSE deserializeItems(o, items, idx + 1, path, valueClassData,
                                       failIfClassNotFound, r.st, Append(acc, r.val))
         IN Then(deserializeFromObjectInternal(o, items[idx], Append(path, IdxSeg(idx - 1)),
                                               valueClassData, failIfClassNotFound, st))

\* a new object of the heap of st, and the reference to it
Alloc(st, obj) == Ok(Ref(Len(st.H) + 1), [st EXCEPT !.H = Append(@, obj)])

deserializeArray(o, value, path, valueClassData, failIfClassNotFound, st) ==
    IF value.t # "arr" THEN Fail("TypeError", st)
    ELSE LET Then(r) == IF ~r.ok THEN r ELSE Alloc(r.st, [k |-> "arr", e |-> r.val])
         IN Then(deserializeItems(o, value.e, 1, path, valueClassData,
                                  failIfClassNotFound, st, << >>))

deserializeSet(o, value, path, valueClassData, st) ==
    IF value.t # "arr" THEN Fail("TypeError", st)
    ELSE LET Then(r) ==
                 IF ~r.ok THEN r ELSE Alloc(r.st, [k |-> "set", e |-> NewSet(r.val, << >>)])
         IN Then(deserializeItems(o, value.e, 1, path, valueClassData, FALSE, st, << >>))

\* value.map(...) of deserializeMap
deserializeEntries(o, entries, idx, path, keyClassData, valueClassData, st, acc) ==
    IF idx > Len(entries) THEN Ok(acc, st)
    ELSE LET WithValue(k, v) ==
                 IF ~v.ok THEN v
                 ELSE deserializeEntries(o, entries, idx + 1, path, keyClassData,
                                         valueClassData, v.st, Append(acc, Fld(k.val, v.val)))
             WithKey(entry, k) ==
                 IF ~k.ok THEN k
                 ELSE WithValue(k, deserializeFromObjectInternal(o, entry.val,
                                       Append(path, PairSeg(idx - 1, 1)), valueClassData,
                                       FALSE, k.st))
             WithEntry(entry) ==
                 IF ~entry.ok THEN Fail("TypeError", st)
                 ELSE WithKey(entry, deserializeFromObjectInternal(o, entry.key,
                                         Append(path, PairSeg(idx - 1, 0)), keyClassData,
                                         FALSE, st))
         IN WithEntry(EntryOf(entries[idx]))

deserializeMap(o, value, path, keyClassData, valueClassData, st) ==
    IF value.t # "arr" THEN Fail("TypeError", st)
    ELSE LET Then(r) ==
                 IF ~r.ok THEN r ELSE Alloc(r.st, [k |-> "map", m |-> NewMap(r.val, << >>)])
         IN Then(deserializeEntries(o, value.e, 1, path, keyClassData, valueClassData,
                                    st, << >>))

\* the switch over propData.type (lines 600-657)
deserializeProperty(o, propData, propValue, path, st) ==
    LET vcd == getClassDataByCtor(st.R, propData.vct)
        kcd == getClassDataByCtor(st.R, propData.kct)
        stV == [st EXCEPT !.R = TouchCtor(@, propData.vct)]
        stKV == [st EXCEPT !.R = TouchCtor(TouchCtor(@, propData.kct), propData.vct)]
    IN IF IsNullish(propValue) THEN Ok(propValue, st)
       ELSE CASE propData.type = "class" ->
                    deserializeFromObjectInternal(o, propValue, path, vcd, FALSE, stV)
              [] propData.type = "array" ->
                    deserializeArray(o, propValue, path, vcd, FALSE, stV)
              [] propData.type = "set" ->
                    deserializeSet(o, propValue, path, vcd, stV)
              [] propData.type = "map" ->
                    deserializeMap(o, propValue, path, kcd, vcd, stKV)
              [] OTHER -> Ok(propValue, st)

\* the loop over getAllProperties(valueClassData) of deserializeObject; obj
\* is the instance being filled
deserializeProperties(o, value, obj, props, idx, path, st) ==
    IF idx > Len(props) THEN Ok(obj, st)
    ELSE LET key == props[idx].key
             propData == props[idx].val
             present == RawIn(value, key)
             Assign(r) ==
                 IF ~r.ok THEN r
                 ELSE deserializeProperties(o, value, obj, props, idx + 1, path,
                          [r.st EXCEPT !.H = ReflectSet(@, obj, KeySeg(key), r.val)])
         IN IF ~present.ok THEN Fail("TypeError", st)
            ELSE IF ~present.has
            THEN deserializeProperties(o, value, obj, props, idx + 1, path, st)
            ELSE Assign(deserializeProperty(o, propData,
                                            ApplyHook(propData.deser, RawGet(value, key)),
                                            Append(path, KeySeg(key)), st))

\* the loop `for (const key in value)` of deserializeObject
deserializeKeys(o, fields, idx, path, st, acc) ==
    IF idx > Len(fields) THEN Alloc(st, [k |-> "plain", f |-> acc])
    ELSE LET Then(r) ==
                 IF ~r.ok THEN r
                 ELSE deserializeKeys(o, fields, idx + 1, path, r.st,
                                      Put(acc, fields[idx].key, r.val))
         IN Then(deserializeFromObjectInternal(o, fields[idx].val,
                                               Append(path, KeySeg(fields[idx].key)),
                                               "", FALSE, st))

\* the object is constructed and patched, whatever value is
deserializeObject_rebuild(o, value, path, valueClassData, failIfClassNotFound, st) ==
    LET Build(d, st1) ==
            IF ~d.ok THEN Fail("resolution", st1)
            ELSE IF d.vcd # ""
            THEN IF d.R.byCtor[d.vcd].ctor = ""
                 THEN Ok(value, st1)   \* obj = value; no property is declared
                 ELSE deserializeProperties(o, value, Ref(Len(st1.H) + 1),
                          getAllProperties(d.R, d.vcd), 1, path,
                          [st1 EXCEPT !.H = Construct(@, d.R.byCtor[d.vcd].ctor)])
            ELSE IF failIfClassNotFound \/ o.failIfPlainObjectsFound
            THEN Fail("classNotFound", st1)
            ELSE deserializeKeys(o, IF value.t = "obj" THEN value.e ELSE << >>, 1, path,
                                 st1, << >>)
        Determined(d) == Build(d, [st EXCEPT !.R = d.R])
    IN Determined(DetermineClassData(o, st.R, value, valueClassData))

deserializeObject(o, value, path, valueClassData, failIfClassNotFound, st) ==
    LET Build(d, st1) ==
            IF ~d.ok THEN Fail("resolution", st1)
            ELSE IF d.vcd # ""
            THEN IF IsLive(value)
                 THEN Ok(value, st1)   \* obj = value, and the loop is skipped
                 ELSE IF d.R.byCtor[d.vcd].ctor = ""
                 THEN Ok(value, st1)   \* obj = value; no property is declared
                 ELSE deserializeProperties(o, value, Ref(Len(st1.H) + 1),
                          getAllProperties(d.R, d.vcd), 1, path,
                          [st1 EXCEPT !.H = Construct(@, d.R.byCtor[d.vcd].ctor)])
            ELSE IF failIfClassNotFound \/ o.failIfPlainObjectsFound
            THEN Fail("classNotFound", st1)
            ELSE deserializeKeys(o, IF value.t = "obj" THEN value.e ELSE << >>, 1, path,
                                 st1, << >>)
        Determined(d) == Build(d, [st EXCEPT !.R = d.R])
    IN Determined(DetermineClassData(o, st.R, value, valueClassData))

deserializeFromObjectInternal(o, value, path, valueClassData, failIfClassNotFound, st) ==
    LET refName == o.circularDependencyReferencePropertyName
        hook == IF valueClassData = "" THEN "" ELSE st.R.byCtor[valueClassData].deser
        v == ApplyHook(hook, value)
    IN IF refName # "" /\ ~Falsy(RawGet(value, refName))
       THEN Ok(value, [st EXCEPT !.refs = Append(@, path)])
       ELSE IF HookThrows(hook, value) THEN Fail("hook", st)
       ELSE IF IsNullish(v) THEN Ok(v, st)
       ELSE IF valueClassData = "" /\ IsPrimitive(v) THEN Ok(v, st)
       ELSE IF v.t = "arr"
       THEN deserializeArray(o, v, path, valueClassData, failIfClassNotFound, st)
       ELSE deserializeObject(o, v, path, valueClassData, failIfClassNotFound, st)

RECURSIVE replaceReferences(_, _, _, _, _)
\* the loop over encounteredReferencePathsInDeserialization of
\* replaceCircularReferences: [ok, H, obj, err]
replaceReferences(o, H, obj, refs, idx) ==
    IF idx > Len(refs) THEN [ok |-> TRUE, H |-> H, obj |-> obj, err |-> ""]
    ELSE LET refPath == refs[idx]
             Written(w) ==
                 IF ~w.ok THEN [ok |-> FALSE, H |-> H, obj |-> obj, err |-> w.err]
                 ELSE replaceReferences(o, w.H, obj, refs, idx + 1)
             Replace(targetObj) ==
                 IF ~targetObj.ok THEN [ok |-> FALSE, H |-> H, obj |-> obj, err |-> "path"]
                 ELSE IF refPath = << >>
                 THEN \* Reflect.set(obj, undefined, targetObj) on the raw root
                      replaceReferences(o, H,
                          IF obj.t = "obj" THEN ObjV(Put(obj.e, "undefined", targetObj.val))
                          ELSE obj,
                          refs, idx + 1)
                 ELSE Written(setInObjectFromPath(H, obj, refPath, targetObj.val))
             \* Array.isArray(targetPath): the path is an inline array or an
             \* array of the heap
             WithTargetPath(targetPath) ==
                 IF targetPath.t = "arr"
                 THEN Replace(getInObjectFromPath(H, obj, targetPath.e))
                 ELSE IF targetPath.t = "ref" /\ H[targetPath.id].k = "arr"
                 THEN Replace(getInObjectFromPath(H, obj, H[targetPath.id].e))
                 ELSE replaceReferences(o, H, obj, refs, idx + 1)
             WithRefObj(refObj) ==
                 IF ~refObj.ok THEN [ok |-> FALSE, H |-> H, obj |-> obj, err |-> "path"]
                 ELSE IF refObj.val.t = "ref"
                 THEN WithTargetPath(
                          IF H[refObj.val.id].k \in {"inst", "plain"}
                          THEN Lookup(H[refObj.val.id].f,
                                      o.circularDependencyReferencePropertyName)
                          ELSE Undef)
                 ELSE WithTargetPath(
                          RawGet(refObj.val, o.circularDependencyReferencePropertyName))
         IN WithRefObj(getInObjectFromPath(H, obj, refPath))

replaceCircularReferences(o, H, obj, refs) ==
    IF o.circularDependencyReferencePropertyName = ""
    THEN [ok |-> TRUE, H |-> H, obj |-> obj, err |-> ""]
    ELSE replaceReferences(o, H, obj, refs, 1)

\* a call whose failIfRootClassNotFound argument is ignored
deserializeFromObject_optionOnly(j, R, value, ctor, failIfRootClassNotFound) ==
    LET fail == j.options.failIfRootClassNotFound
        Finish(r, out) ==
            [out |-> out,
             j |-> [j EXCEPT !.encounteredReferencePathsInDeserialization = r.st.refs],
             R |-> r.st.R]
        Replaced(f) ==
            IF ~f.ok THEN [ok |-> FALSE, val |-> Undef, H |-> f.H, err |-> f.err]
            ELSE [ok |-> TRUE, val |-> f.obj, H |-> f.H, err |-> ""]
        Deserialized(r) ==
            IF ~r.ok
            THEN Finish(r, [ok |-> FALSE, val |-> Undef, H |-> r.st.H, err |-> r.err])
            ELSE Finish(r, Replaced(replaceCircularReferences(j.options, r.st.H, r.val,
                                                              r.st.refs)))
    IN Deserialized(deserializeFromObjectInternal(j.options, value, << >>,
                        getClassDataByCtor(R, ctor), fail,
                        [R |-> TouchCtor(R, ctor), H |-> << >>, refs |-> << >>]))

\* deserializeFromObject(value, ctor, failIfRootClassNotFound) on instance
\* fields j with the registry R; ctor "" and failIfRootClassNotFound "" stand
\* for an argument that is not passed:
\* [out: the outcome, j: the instance afterwards, R: the registry afterwards]
deserializeFromObject(j, R, value, ctor, failIfRootClassNotFound) ==
    LET fail == IF failIfRootClassNotFound = "" THEN j.options.failIfRootClassNotFound
                ELSE failIfRootClassNotFound = "true"
        Finish(r, out) ==
            [out |-> out,
             j |-> [j EXCEPT !.encounteredReferencePathsInDeserialization = r.st.refs],
             R |-> r.st.R]
        Replaced(f) ==
            IF ~f.ok THEN [ok |-> FALSE, val |-> Undef, H |-> f.H, err |-> f.err]
            ELSE [ok |-> TRUE, val |-> f.obj, H |-> f.H, err |-> ""]
        Deserialized(r) ==
            IF ~r.ok
            THEN Finish(r, [ok |-> FALSE, val |-> Undef, H |-> r.st.H, err |-> r.err])
            ELSE Finish(r, Replaced(replaceCircularReferences(j.options, r.st.H, r.val,
                                                              r.st.refs)))
    IN Deserialized(deserializeFromObjectInternal(j.options, value, << >>,
                        getClassDataByCtor(R, ctor), fail,
                        [R |-> TouchCtor(R, ctor), H |-> << >>, refs |-> << >>]))

----------------------------------------------------------------------------
(* The application's classes of the graph scenarios, as their decorators   *)
(* register them (property decorators run before the class decorator):     *)
(*   @jsonClass() class Foo { @jsonProperty() name;                        *)
(*       @jsonProperty(Foo) parent; @jsonArrayProperty(Foo) arr;           *)
(*       @jsonSetProperty(Foo) set; @jsonMapProperty(Foo, String) keys;    *)
(*       @jsonMapProperty(String, Foo) vals }                              *)
(*   @jsonClass() class Bar extends Foo { @jsonProperty() extra;           *)
(*       @jsonAnyProperty() data }                                         *)
(*   class Baz extends Foo { @jsonProperty() extra }     (no @jsonClass)   *)

RECURSIVE Declare(_, _, _)
\* the property decorators of one class, in declaration order
Declare(R, ctor, decls) ==
    IF decls = << >> THEN R
    ELSE Declare(setPropertyInternal(R, ctor, Head(decls).key, Head(decls).val),
                 ctor, Tail(decls))

FooProperties ==
    <<Fld("name", PropData("class", "", "")),
      Fld("parent", PropData("class", "", "Foo")),
      Fld("arr", PropData("array", "", "Foo")),
      Fld("set", PropData("set", "", "Foo")),
      Fld("keys", PropData("map", "Foo", "String")),
      Fld("vals", PropData("map", "String", "Foo"))>>
BarProperties ==
    <<Fld("extra", PropData("class", "", "")), Fld("data", PropData("any", "", ""))>>
BazProperties == <<Fld("extra", PropData("class", "", ""))>>

GraphRegistry ==
    LET foo == jsonClass(Declare(EmptyRegistry, "Foo", FooProperties), "Foo", "", "", "")
        bar == jsonClass(Declare(foo, "Bar", BarProperties), "Bar", "", "", "")
    IN Declare(bar, "Baz", BazProperties)

----------------------------------------------------------------------------
(* Value graphs of the application: NumInst instances, instance 1 the root, *)
(* linked by at most MaxEdges edges [from, slot, to]: `to` is the parent   *)
(* property of `from`, or a member of its arr / set, or a key of its keys  *)
(* map, or a value of its vals map.                                         *)

NumInst == 2     \* instances of a graph with shared objects and cycles
MaxEdges == 3    \* edges of such a graph
TreeInst == 3    \* instances of a graph without shared objects
TreeEdges == 2   \* edges of such a graph

Slots == <<"parent", "arr", "set", "keys", "vals">>
AllEdges(n) == [from : 1..n, slot : {"parent", "arr", "set", "keys", "vals"}, to : 1..n]

RECURSIVE SubsetsUpTo(_, _)
SubsetsUpTo(S, k) ==
    IF k = 0 THEN {{}}
    ELSE LET P == SubsetsUpTo(S, k - 1)
         IN P \cup {p \cup {e} : p \in P, e \in S}

\* one parent per instance
WellFormed(edges) ==
    \A e1, e2 \in edges : (e1.slot = "parent" /\ e2.slot = "parent" /\ e1.from = e2.from)
                          => e1 = e2
RECURSIVE Reach(_, _, _)
\* the instances reachable from those of `from` in at most k steps
Reach(edges, from, k) ==
    IF k = 0 THEN from
    ELSE Reach(edges, from \cup {e.to : e \in {d \in edges : d.from \in from}}, k - 1)

\* every edge is reachable from instance 1, and instance i is used only if
\* instance i - 1 is
Connected(n, edges) ==
    LET reached == Reach(edges, {1}, n)
    IN /\ \A e \in edges : e.from \in reached
       /\ \A i \in 2..n : i \in reached => (i - 1) \in reached

Graphs(n, k) == {g \in SubsetsUpTo(AllEdges(n), k) : WellFormed(g) /\ Connected(n, g)}

\* no instance is the target of two edges and the root of none: below the
\* root every object occurs at one position and no cycle is reachable
IsTree(edges) ==
    /\ \A e1, e2 \in edges : e1.to = e2.to => e1 = e2
    /\ \A e \in edges : e.to # 1

Labels == <<"a", "b", "c", "d", "e">>

RECURSIVE Targets(_, _, _, _, _)
\* the targets of the edges of `from` in `slot`, in increasing order
Targets(n, edges, from, slot, to) ==
    IF to > n THEN << >>
    ELSE (IF [from |-> from, slot |-> slot, to |-> to] \in edges THEN <<to>> ELSE << >>)
         \o Targets(n, edges, from, slot, to + 1)

\* a Bar holds a plain object in its untyped property; it is object n + i
OwnFields(n, cls, i) ==
    <<Fld("name", Prim(Labels[i]))>>
    \o (IF cls \in {"Bar", "Baz"} THEN <<Fld("extra", Prim("x"))>> ELSE << >>)
    \o (IF cls = "Bar" THEN <<Fld("data", Ref(n + i))>> ELSE << >>)
PlainData(i) == [k |-> "plain", f |-> <<Fld("n", Num(0)), Fld("s", Prim(Labels[i]))>>]

\* the collection object of a slot with the given targets
Collection(slot, targets) ==
    CASE slot = "arr" -> [k |-> "arr", e |-> [j \in 1..Len(targets) |-> Ref(targets[j])]]
      [] slot = "set" -> [k |-> "set", e |-> [j \in 1..Len(targets) |-> Ref(targets[j])]]
      [] slot = "keys" -> [k |-> "map",
                           m |-> [j \in 1..Len(targets) |->
                                     Fld(Ref(targets[j]), Prim(Labels[targets[j]]))]]
      [] OTHER -> [k |-> "map",
                   m |-> [j \in 1..Len(targets) |->
                             Fld(Prim(Labels[targets[j]]), Ref(targets[j]))]]

RECURSIVE Link(_, _, _, _, _)
\* the heap with the slots of instance i, from the s-th on, filled in
Link(n, H, edges, i, s) ==
    IF i > n THEN H
    ELSE IF s > Len(Slots) THEN Link(n, H, edges, i + 1, 1)
    ELSE LET targets == Targets(n, edges, i, Slots[s], 1)
         IN IF targets = << >> THEN Link(n, H, edges, i, s + 1)
            ELSE IF Slots[s] = "parent"
            THEN Link(n, [H EXCEPT ![i].f = Put(@, "parent", Ref(targets[1]))], edges, i, s + 1)
            ELSE Link(n, Append([H EXCEPT ![i].f = Put(@, Slots[s], Ref(Len(H) + 1))],
                                Collection(Slots[s], targets)),
                      edges, i, s + 1)

\* the live heap of a graph: the instances, their plain objects, then their
\* collections
BuildHeap(n, classes, edges) ==
    Link(n,
         [i \in 1..n |-> [k |-> "inst", cls |-> classes[i], f |-> OwnFields(n, classes[i], i)]]
         \o [i \in 1..n |-> PlainData(i)],
         edges, 1, 1)

----------------------------------------------------------------------------
(* Deep equivalence of a live graph and a deserialized one: the same scalar *)
(* values, the same collection contents in the same order, the same class  *)
(* at every node, and the same sharing (two positions hold one object on   *)
(* one side exactly when they do on the other).  m is the correspondence   *)
(* of object identities found so far, a list of Fld(id1, id2).             *)

Image(m) == {m[i].val : i \in 1..Len(m)}

\* the children of an object or inline value, as a list of values, given
\* the order of the keys to read
ChildrenOf(obj, keys) ==
    CASE obj.k \in {"inst", "plain"} -> [i \in 1..Len(keys) |-> Lookup(obj.f, keys[i])]
      [] obj.k \in {"arr", "set"} -> obj.e
      [] OTHER -> [i \in 1..(2 * Len(obj.m)) |->
                     IF i % 2 = 1 THEN obj.m[(i + 1) \div 2].key ELSE obj.m[i \div 2].val]

\* an inline value as an object
AsObject(v) == IF v.t = "obj" THEN [k |-> "plain", f |-> v.e] ELSE [k |-> "arr", e |-> v.e]

KeysOfObject(obj) == IF obj.k \in {"inst", "plain"} THEN KeysOf(obj.f) ELSE << >>

\* the keys of either object: those of the first, then the others of the second
AllKeys(o1, o2) ==
    LET k1 == KeysOfObject(o1)
        k2 == KeysOfObject(o2)
    IN k1 \o SelectSeq(k2, LAMBDA k : \A i \in 1..Len(k1) : k1[i] # k)

SameShape(o1, o2) ==
    /\ o1.k = o2.k
    /\ o1.k = "inst" => o1.cls = o2.cls
    /\ o1.k \in {"arr", "set"} => Len(o1.e) = Len(o2.e)
    /\ o1.k = "map" => Len(o1.m) = Len(o2.m)

RECURSIVE IsoValue(_, _, _, _, _)
RECURSIVE IsoList(_, _, _, _, _, _)

IsoList(H1, s1, H2, s2, idx, m) ==
    IF idx > Len(s1) THEN [ok |-> TRUE, m |-> m]
    ELSE LET r == IsoValue(H1, s1[idx], H2, s2[idx], m)
         IN IF ~r.ok THEN r ELSE IsoList(H1, s1, H2, s2, idx + 1, r.m)

IsoValue(H1, v1, H2, v2, m) ==
    IF v1.t \notin {"ref", "obj", "arr"} \/ v2.t \notin {"ref", "obj", "arr"}
    THEN [ok |-> v1 = v2, m |-> m]
    ELSE LET o1 == IF v1.t = "ref" THEN H1[v1.id] ELSE AsObject(v1)
             o2 == IF v2.t = "ref" THEN H2[v2.id] ELSE AsObject(v2)
             both == v1.t = "ref" /\ v2.t = "ref"
             keys == AllKeys(o1, o2)
         IN IF both /\ HasKey(m, v1.id) THEN [ok |-> Lookup(m, v1.id) = v2.id, m |-> m]
            ELSE IF both /\ v2.id \in Image(m) THEN [ok |-> FALSE, m |-> m]
            ELSE IF ~SameShape(o1, o2) THEN [ok |-> FALSE, m |-> m]
            ELSE IsoList(H1, ChildrenOf(o1, keys), H2, ChildrenOf(o2, keys), 1,
                         IF both THEN Append(m, Fld(v1.id, v2.id)) ELSE m)

DeeplyEquivalent(H1, v1, H2, v2) == IsoValue(H1, v1, H2, v2, << >>).ok

----------------------------------------------------------------------------
(* The state machine *)

Registry == [byCtor |-> classDataByCtor, byName |-> classDataByName, proto |-> protoClassData]

NotDone == [done |-> FALSE]

\* the application has registered the classes of the graph scenarios, holds
\* the live graph H and one serializer, and has called nothing yet
InitGraph(H, rootValue, options, family) ==
    /\ classDataByCtor = GraphRegistry.byCtor
    /\ classDataByName = GraphRegistry.byName
    /\ protoClassData = GraphRegistry.proto
    /\ declCount = 0
    /\ heap = H
    /\ root = rootValue
    /\ jcs = [i \in 1..1 |-> NewInstance(options)]
    /\ plain = Undef
    /\ serOut = NotDone
    /\ deserOut = NotDone
    /\ InitialStatics
    /\ scenario = family

GraphClasses == {"Foo", "Bar", "Baz"}

\* a graph without shared objects, its root instance 1 or a plain object
\* that holds instance 1
InitTree ==
    \E classes \in [1..TreeInst -> GraphClasses], g \in Graphs(TreeInst, TreeEdges),
       wrapped \in BOOLEAN :
        /\ IsTree(g)
        /\ wrapped => Cardinality(g) <= 1
        /\ \A i \in 1..TreeInst : i \notin Reach(g, {1}, TreeInst) => classes[i] = "Foo"
        /\ LET H == BuildHeap(TreeInst, classes, g)
               wrapper == [k |-> "plain", f |-> <<Fld("item", Ref(1))>>]
           IN IF wrapped
              THEN InitGraph(Append(H, wrapper), Ref(Len(H) + 1), defaultOptions, "tree")
              ELSE InitGraph(H, Ref(1), defaultOptions, "tree")

\* a graph of Foo instances with shared objects and cycles, the
\* circular-reference field configured or not
InitCycle ==
    \E g \in Graphs(NumInst, MaxEdges), refName \in {"", "#ref"} :
        InitGraph(BuildHeap(NumInst, [i \in 1..NumInst |-> "Foo"], g), Ref(1),
                  [defaultOptions EXCEPT !.circularDependencyReferencePropertyName = refName],
                  "cycle")

\* jcs[i].serializeToObject(root); the application keeps the result
SerializeToObject(i) ==
    /\ root.t = "ref"
    /\ \E r \in {serializeToObject(heap, jcs[i], Registry, root)} :
          /\ serOut' = [done |-> TRUE, by |-> i, ok |-> r.out.ok, val |-> r.out.val,
                        err |-> r.out.err, of |-> "root"]
          /\ plain' = IF r.out.ok THEN r.out.val ELSE plain
          /\ jcs' = [jcs EXCEPT ![i] = r.j]
          /\ classDataByCtor' = r.R.byCtor
          /\ classDataByName' = r.R.byName
          /\ protoClassData' = r.R.proto
    /\ UNCHANGED <<statics, declCount, heap, root, deserOut, scenario>>

\* value.constructor of the value the application serializes
RootCtor == IF root.t = "ref" THEN CtorOf(heap[root.id]) ELSE ""

\* jcs[i].deserializeFromObject(plain, ctor, failIfRootClassNotFound)
DeserializeFromObject(i, ctor, failIfRootClassNotFound) ==
    /\ plain # Undef
    /\ \E r \in {deserializeFromObject(jcs[i], Registry, plain,
                                        IF ctor \in Ctors THEN ctor ELSE "",
                                        failIfRootClassNotFound)} :
          /\ deserOut' = [done |-> TRUE, by |-> i, ok |-> r.out.ok, val |-> r.out.val,
                          H |-> r.out.H, err |-> r.out.err, input |-> plain,
                          ctor |-> ctor, failIfRootClassNotFound |-> failIfRootClassNotFound]
          /\ jcs' = [jcs EXCEPT ![i] = r.j]
          /\ classDataByCtor' = r.R.byCtor
          /\ classDataByName' = r.R.byName
          /\ protoClassData' = r.R.proto
    /\ UNCHANGED <<statics, declCount, heap, root, plain, serOut, scenario>>

\* round trips of graphs without shared objects
NextTree ==
    \E i \in DOMAIN jcs :
        \/ SerializeToObject(i)
        \/ DeserializeFromObject(i, RootCtor, "")

Spec == InitTree /\ [][NextTree]_vars

\* round trips of graphs with shared objects and cycles
NextCycle ==
    \E i \in DOMAIN jcs :
        \/ SerializeToObject(i)
        \/ DeserializeFromObject(i, RootCtor, "")

SpecCycle == InitCycle /\ [][NextCycle]_vars

----------------------------------------------------------------------------
(* Round trip (C1) *)

\* the application has serialized its graph and deserialized the result
\* with the constructor of the graph's root as the target type
RoundTripDone ==
    /\ serOut.done /\ serOut.ok
    /\ deserOut.done
    /\ deserOut.input = serOut.val
    /\ deserOut.ctor = RootCtor

RoundTripEquivalent ==
    /\ deserOut.ok
    /\ DeeplyEquivalent(heap, root, deserOut.H, deserOut.val)

\* the declared type of the slot that holds instance i of a graph without
\* shared objects: every property of the graph classes declares Foo; the
\* property of a plain root declares nothing
SlotType(i) == IF heap[root.id].k = "plain" /\ i = 1 THEN "" ELSE "Foo"

\* the class is registered under a name that leads back to it
Named(cls) ==
    /\ classDataByCtor[cls].name # ""
    /\ classDataByName[classDataByCtor[cls].name] = cls

\* the instances of the graph other than its root
Placed == {i \in 1..Len(heap) : heap[i].k = "inst" /\ Ref(i) # root}

\* every instance held by a slot that does not declare the instance's own
\* class belongs to a class registered under a name
PolymorphicNamed == \A i \in Placed : heap[i].cls = SlotType(i) \/ Named(heap[i].cls)

----------------------------------------------------------------------------
(* Cycles with the circular-reference field configured (C2) *)

MaxDepth == 4    \* segments of a path to a position of the graph

\* the children of a heap object, each with the segment that leads to it
ChildSegs(obj) ==
    CASE obj.k \in {"inst", "plain"} ->
             {[seg |-> KeySeg(obj.f[i].key), val |-> obj.f[i].val] : i \in 1..Len(obj.f)}
      [] obj.k \in {"arr", "set"} ->
             {[seg |-> IdxSeg(i - 1), val |-> obj.e[i]] : i \in 1..Len(obj.e)}
      [] OTHER ->
             {[seg |-> PairSeg(i - 1, 0), val |-> obj.m[i].key] : i \in 1..Len(obj.m)}
             \cup {[seg |-> PairSeg(i - 1, 1), val |-> obj.m[i].val] : i \in 1..Len(obj.m)}

RECURSIVE PathsTo(_, _, _, _)
\* the paths of at most d segments that lead from v to target
PathsTo(H, v, target, d) ==
    (IF v = target THEN {<< >>} ELSE {})
    \cup (IF d = 0 \/ v.t # "ref" THEN {}
          ELSE UNION {{<<c.seg>> \o q : q \in PathsTo(H, c.val, target, d - 1)} :
                      c \in ChildSegs(H[v.id])})

\* the positions below the root that hold the root itself
RootPositions == PathsTo(heap, root, root, MaxDepth) \ {<< >>}

\* the application has serialized its graph with the circular-reference
\* field configured and deserialized the result
CycleRoundTripDone ==
    /\ scenario = "cycle"
    /\ jcs[1].options.circularDependencyReferencePropertyName # ""
    /\ serOut.done /\ serOut.ok
    /\ deserOut.done
    /\ deserOut.input = serOut.val

\* the value at path p of the deserialized graph is the deserialized root
HoldsRoot(p) ==
    /\ getInObjectFromPath(deserOut.H, deserOut.val, p).ok
    /\ getInObjectFromPath(deserOut.H, deserOut.val, p).val = deserOut.val

\* C2: with the circular-reference field configured, for every root object
\* that is reachable from itself (through a property, an array element, a
\* set member, a map key or a map value, directly or via a child), the
\* deserialized serialization holds the reconstructed root itself at every
\* position that held the root.
C2_CycleRoundTrip ==
    (CycleRoundTripDone /\ RootPositions # {})
        => (deserOut.ok /\ \A p \in RootPositions : HoldsRoot(p))

\* a round trip of a root that holds itself and a second self-referencing
\* object below a map: the final pass of the deserialization throws
C2_Failure ==
    /\ CycleRoundTripDone /\ RootPositions # {}
    /\ ~deserOut.ok /\ deserOut.err = "path"

----------------------------------------------------------------------------
(* Cycles without the circular-reference field (C3) *)

\* the objects of the graph that are reachable from the root
Reachable == {v \in {Ref(i) : i \in 1..Len(heap)} : PathsTo(heap, root, v, MaxDepth) # {}}

\* some object of the graph is its own ancestor
Cyclic == \E v \in Reachable : PathsTo(heap, v, v, MaxDepth) \ {<< >>} # {}

\* the application has serialized a cyclic graph without the
\* circular-reference field
CyclicSerializeDone ==
    /\ scenario = "cycle"
    /\ jcs[1].options.circularDependencyReferencePropertyName = ""
    /\ Cyclic
    /\ serOut.done

\* C3: with the circular-reference field not configured, serializeToObject
\* on a graph in which some object is its own ancestor (through properties,
\* array or set elements, map keys or map values, the root on the cycle or
\* not) returns no result: it aborts with the circular-reference error.
C3_CircularError == CyclicSerializeDone => (~serOut.ok /\ serOut.err = "circular")

\* a cyclic graph whose serialization aborts with the error of the path walk
C3_Failure == CyclicSerializeDone /\ ~serOut.ok /\ serOut.err = "path"

----------------------------------------------------------------------------
(* Type tags of the serialized instances (C4) *)

RECURSIVE OutPath(_)
\* the path in the serialized structure of the value at path p of the live
\* graph: a map is an array of [key, value] entries
OutPath(p) ==
    IF p = << >> THEN << >>
    ELSE (IF IsPairSeg(Head(p)) THEN Head(p).e ELSE <<Head(p)>>) \o OutPath(Tail(p))

RECURSIVE LastKey(_, _)
\* the index of the last property key among the first n segments of p
LastKey(p, n) == IF n = 0 \/ p[n].t = "prim" THEN n ELSE LastKey(p, n - 1)

\* the type declared for the slot at the non-empty path p: the key or value
\* type of the property of the enclosing instance, "" when the enclosing
\* object is a plain object
DeclaredType(p) ==
    LET j == LastKey(p, Len(p))
        owner == heap[getInObjectFromPath(heap, root, SubSeq(p, 1, j - 1)).val.id]
        propData == Lookup(getAllProperties(Registry, owner.cls), p[j].v)
    IN IF owner.k # "inst" THEN ""
       ELSE IF IsPairSeg(p[Len(p)]) /\ p[Len(p)].e[2].n = 0 THEN propData.kct
       ELSE propData.vct

\* the instances of the graph, each with the path that leads to it
InstancePositions ==
    UNION {{[id |-> i, path |-> p] : p \in PathsTo(heap, root, Ref(i), MaxDepth)} :
           i \in {n \in 1..Len(heap) : heap[n].k = "inst"}}

\* the serialized node of the instance at a position
NodeOf(pos) == getInObjectFromPath(<< >>, serOut.val, OutPath(pos.path)).val

\* the node has the type field, and its value is the name of the class
HasTag(node, cls) ==
    /\ HasKey(node.e, "#type")
    /\ Lookup(node.e, "#type") = IF classDataByCtor[cls].name = "" THEN Undef
                                 ELSE Prim(classDataByCtor[cls].name)

\* the slot of the position declares the class of its instance
SlotMatches(pos) == pos.path # << >> /\ DeclaredType(pos.path) = heap[pos.id].cls

TreeSerialized == scenario = "tree" /\ serOut.done /\ serOut.ok

----------------------------------------------------------------------------
(* Declarations: the decorators applied to the classes                     *)
(*   class Animal; class FourLegged extends Animal;                        *)
(*   class Cat extends FourLegged                                          *)
(* in any order, then the serialization of a Cat.                          *)

MaxDecl == 3     \* decorator applications

Hierarchy == <<"Animal", "FourLegged", "Cat">>
DeclKeys == {"name", "fur"}
\* @jsonProperty() and @jsonProperty(String, { serializer })
DeclKinds == {PropData("class", "", ""),
              [PropData("class", "", "String") EXCEPT !.ser = "hooked"]}
DeclNames == {"", "Pet"}

SetRegistry(R) ==
    /\ classDataByCtor' = R.byCtor
    /\ classDataByName' = R.byName
    /\ protoClassData' = R.proto

InitReg ==
    /\ classDataByCtor = InitialByCtor
    /\ classDataByName = InitialByName
    /\ protoClassData = InitialProto
    /\ declCount = 0
    /\ heap = <<[k |-> "inst", cls |-> "Cat",
                 f |-> <<Fld("name", Prim("Tom")), Fld("character", Prim("lazy")),
                         Fld("fur", Prim("fuzzy"))>>]>>
    /\ root = Ref(1)
    /\ jcs = [i \in 1..1 |-> NewInstance(defaultOptions)]
    /\ plain = Undef
    /\ serOut = NotDone
    /\ deserOut = NotDone
    /\ InitialStatics
    /\ scenario = "registry"

\* a property decorator on `key` of class ctor
JsonProperty(ctor, key, propData) ==
    /\ declCount < MaxDecl
    /\ ~serOut.done
    /\ SetRegistry(setPropertyInternal(Registry, ctor, key, propData))
    /\ declCount' = declCount + 1
    /\ UNCHANGED <<statics, heap, root, jcs, plain, serOut, deserOut, scenario>>

\* @jsonClass(name) on class ctor
JsonClass(ctor, name) ==
    /\ declCount < MaxDecl
    /\ ~serOut.done
    /\ SetRegistry(jsonClass(Registry, ctor, name, "", ""))
    /\ declCount' = declCount + 1
    /\ UNCHANGED <<statics, heap, root, jcs, plain, serOut, deserOut, scenario>>

NextReg ==
    \/ \E ctor \in {Hierarchy[i] : i \in 1..Len(Hierarchy)}, key \in DeclKeys,
          propData \in DeclKinds : JsonProperty(ctor, key, propData)
    \/ \E ctor \in {Hierarchy[i] : i \in 1..Len(Hierarchy)}, name \in DeclNames :
          JsonClass(ctor, name)
    \/ \E i \in DOMAIN jcs : ~serOut.done /\ SerializeToObject(i)

SpecReg == InitReg /\ [][NextReg]_vars

----------------------------------------------------------------------------
(* Inherited properties (C5, C6) *)

\* the descriptor that governs the serialization of the root
Governing == SerClassData([o |-> jcs[1].options], Registry, CtorOf(heap[root.id])).jsonData

RECURSIVE Lineage(_)
\* the constructor and its ancestors, oldest first
Lineage(ctor) == IF ctor = "" THEN << >> ELSE Append(Lineage(SuperOf(ctor)), ctor)

\* the keys a class declares itself, in declaration order
OwnKeys(ctor) == IF classDataByCtor[ctor].has THEN KeysOf(classDataByCtor[ctor].props) ELSE << >>

RECURSIVE Concat(_)
Concat(seqs) == IF seqs = << >> THEN << >> ELSE Head(seqs) \o Concat(Tail(seqs))

RECURSIVE FirstOccurrences(_)
\* the sequence without the later occurrences of an element
FirstOccurrences(keys) ==
    IF keys = << >> THEN << >>
    ELSE LET front == FirstOccurrences(SubSeq(keys, 1, Len(keys) - 1))
         IN IF \E i \in 1..Len(front) : front[i] = keys[Len(keys)] THEN front
            ELSE Append(front, keys[Len(keys)])

\* the declared keys of the lineage of ctor: every ancestor's before the
\* class's own, oldest ancestor first
InheritedOrder(ctor) ==
    FirstOccurrences(Concat([i \in 1..Len(Lineage(ctor)) |-> OwnKeys(Lineage(ctor)[i])]))

\* the keys of the serialized root other than the type field
EmittedKeys == SelectSeq(KeysOf(serOut.val.e), LAMBDA k : k # "#type")

RegSerialized == scenario = "registry" /\ serOut.done /\ serOut.ok /\ Governing # ""

\* C5: the effective property sequence of a type lists every ancestor's
\* declared properties before the type's own, oldest ancestor first, the
\* walk continuing through ancestors without descriptor or without
\* properties, and the serialized output has the properties in this order.
C5_InheritanceOrder ==
    RegSerialized =>
        /\ KeysOf(getAllProperties(Registry, Governing)) = InheritedOrder(Governing)
        /\ EmittedKeys = InheritedOrder(Governing)

\* a serialized Cat whose oldest ancestor declares a property, whose
\* intermediate ancestor has no descriptor and which declares one itself
C5_Witness ==
    /\ RegSerialized /\ Governing = "Cat"
    /\ OwnKeys("Animal") # << >>
    /\ ~classDataByCtor["FourLegged"].has
    /\ OwnKeys("Cat") # << >>
    /\ Len(EmittedKeys) = 2
    /\ EmittedKeys = OwnKeys("Animal") \o OwnKeys("Cat")

\* the keys the governing class declares that an ancestor declares too
Redeclared ==
    {k \in DeclKeys :
        /\ HasKey(classDataByCtor[Governing].props, k)
        /\ \E a \in {Hierarchy[i] : i \in 1..Len(Hierarchy)} \ {Governing} :
              /\ \E i \in 1..Len(Lineage(Governing)) : Lineage(Governing)[i] = a
              /\ classDataByCtor[a].has /\ HasKey(classDataByCtor[a].props, k)}

\* C6: when a subclass declares a property key again that an ancestor also
\* declares, the effective property map holds the subclass's descriptor
\* for the key, at the position the ancestor's declaration gave it.
C6_SubclassPrecedence ==
    RegSerialized =>
        \A k \in Redeclared :
            /\ Lookup(getAllProperties(Registry, Governing), k)
                   = Lookup(classDataByCtor[Governing].props, k)
            /\ KeysOf(getAllProperties(Registry, Governing)) = InheritedOrder(Governing)

\* a serialized Cat that declares a key again with a descriptor of its own,
\* while the effective descriptor of the key is the ancestor's
C6_Failure ==
    /\ RegSerialized
    /\ \E k \in Redeclared :
          Lookup(getAllProperties(Registry, Governing), k)
              # Lookup(classDataByCtor[Governing].props, k)

----------------------------------------------------------------------------
(* Deserialization of parsed JSON.  The application holds one plain        *)
(* structure and eight serializers, one per combination of                 *)
(* failIfTypeResolutionFails, failIfRootClassNotFound and                  *)
(* failIfPlainObjectsFound; the first is constructed without options.      *)

Flag(i, bit) == ((i - 1) \div bit) % 2 = 1

\* the options of the i-th serializer
FlagOptions(i) ==
    [defaultOptions EXCEPT !.failIfTypeResolutionFails = ~Flag(i, 1),
                           !.failIfRootClassNotFound = Flag(i, 2),
                           !.failIfPlainObjectsFound = Flag(i, 4)]

OptionalField(present, key, value) == IF present THEN <<Fld(key, value)>> ELSE << >>

\* a raw object with the given type tag ("" for none)
RawChild(tag) ==
    ObjV(OptionalField(tag # "", "#type", Prim(tag))
         \o <<Fld("name", Prim("c")), Fld("extra", Prim("x"))>>)

ChildChoices == {Undef, Null, RawChild(""), RawChild("Bar"), RawChild("Nope")}
NameChoices == {Undef, Prim("r"), ObjV(<<Fld("n", Num(0))>>)}
ArrChoices == {Undef, ArrV(<<RawChild("Nope")>>)}
ItemChoices == {Undef, ObjV(<<Fld("n", Num(0))>>)}

\* a raw root; a choice of Undef leaves the key out
RawRoot(tag, name, parent, arr, item) ==
    ObjV(OptionalField(tag # "", "#type", Prim(tag))
         \o OptionalField(name # Undef, "name", name)
         \o OptionalField(parent # Undef, "parent", parent)
         \o OptionalField(arr # Undef, "arr", arr)
         \o OptionalField(item # Undef, "item", item))

InitRaw ==
    \E tag \in {"", "Foo", "Nope"}, name \in NameChoices, parent \in ChildChoices,
       arr \in ArrChoices, item \in ItemChoices :
        /\ classDataByCtor = GraphRegistry.byCtor
        /\ classDataByName = GraphRegistry.byName
        /\ protoClassData = GraphRegistry.proto
        /\ declCount = 0
        /\ heap = << >>
        /\ root = Undef
        /\ jcs = [i \in 1..8 |-> NewInstance(FlagOptions(i))]
        /\ plain = RawRoot(tag, name, parent, arr, item)
        /\ serOut = NotDone
        /\ deserOut = NotDone
        /\ InitialStatics
        /\ scenario = "raw"

NextRaw ==
    \E i \in DOMAIN jcs, ctor \in {"", "Foo"}, failIfRootClassNotFound \in {"", "true", "false"} :
        DeserializeFromObject(i, ctor, failIfRootClassNotFound)

SpecRaw == InitRaw /\ [][NextRaw]_vars

----------------------------------------------------------------------------
(* Properties of the deserialization of parsed JSON *)

RawDone == scenario = "raw" /\ deserOut.done

\* the options of the serializer that made the last call
CallOptions == jcs[deserOut.by].options

\* failIfRootClassNotFound ?? this.options.failIfRootClassNotFound of the last call
EffectiveRootFlag ==
    IF deserOut.failIfRootClassNotFound = "" THEN CallOptions.failIfRootClassNotFound
    ELSE deserOut.failIfRootClassNotFound = "true"

RECURSIVE RawAt(_, _)
\* the node of a raw structure at a path (Undef when there is none)
RawAt(node, path) ==
    IF path = << >> THEN node
    ELSE IF node.t = "obj" /\ Head(path).t = "prim"
    THEN RawAt(Lookup(node.e, Head(path).v), Tail(path))
    ELSE IF node.t = "arr" /\ Head(path).t = "num" /\ Head(path).n < Len(node.e)
    THEN RawAt(node.e[Head(path).n + 1], Tail(path))
    ELSE Undef

\* the object nodes of the inputs of InitRaw
NodePaths == {<< >>, <<KeySeg("name")>>, <<KeySeg("parent")>>, <<KeySeg("item")>>,
              <<KeySeg("arr"), IdxSeg(0)>>}

\* the descriptor the resolver's answer for a raw object leads to
ResolvedData(node) ==
    IF ResolveType(CallOptions, node).t = "prim"
    THEN getClassDataByName(CallOptions, Registry, ResolveType(CallOptions, node).v)
    ELSE ""

\* the resolver yields a name for the node and no descriptor is found for it
Unresolvable(node) ==
    /\ node.t = "obj"
    /\ ~Falsy(ResolveType(CallOptions, node))
    /\ ResolvedData(node) = ""

\* the class the root is deserialized into ("" for none)
RootClass ==
    IF ~Falsy(ResolveType(CallOptions, deserOut.input)) THEN ResolvedData(deserOut.input)
    ELSE deserOut.ctor

\* the paths of the input the walk visits when nothing fails
VisitedPaths ==
    IF RootClass = "" THEN NodePaths
    ELSE {<< >>, <<KeySeg("name")>>, <<KeySeg("parent")>>, <<KeySeg("arr"), IdxSeg(0)>>}

UnknownPositions == {p \in VisitedPaths : Unresolvable(RawAt(deserOut.input, p))}

\* the visited object nodes for which neither a type is named nor declared
UntypedPositions ==
    {p \in VisitedPaths :
        /\ RawAt(deserOut.input, p).t = "obj"
        /\ Falsy(ResolveType(CallOptions, RawAt(deserOut.input, p)))
        /\ \/ p = << >> /\ RootClass = ""
           \/ p # << >> /\ (RootClass = "" \/ p = <<KeySeg("name")>>)}

\* the value the last call built at a path of its result
ResultAt(path) ==
    IF path = << >> THEN deserOut.val
    ELSE getInObjectFromPath(deserOut.H, deserOut.val, path).val

RECURSIVE PlainImage(_, _, _)
\* res is what the untyped walk makes of raw: a primitive is itself, an array
\* an array of images, an object for which a class is found an instance of
\* that class, any other object a plain mapping of the images of all its keys
PlainImage(H, res, raw) ==
    IF raw.t = "arr"
    THEN /\ res.t = "ref"
         /\ H[res.id].k = "arr"
         /\ Len(H[res.id].e) = Len(raw.e)
         /\ \A i \in 1..Len(raw.e) : PlainImage(H, H[res.id].e[i], raw.e[i])
    ELSE IF raw.t = "obj" /\ ResolvedData(raw) # ""
    THEN /\ res.t = "ref"
         /\ H[res.id].k = "inst"
         /\ H[res.id].cls = ResolvedData(raw)
    ELSE IF raw.t = "obj"
    THEN /\ res.t = "ref"
         /\ H[res.id].k = "plain"
         /\ KeysOf(H[res.id].f) = KeysOf(raw.e)
         /\ \A i \in 1..Len(raw.e) : PlainImage(H, H[res.id].f[i].val, raw.e[i].val)
    ELSE res = raw

\* a class-not-found failure that the flags of the call account for
ClassNotFoundApplies ==
    /\ UntypedPositions # {}
    /\ \/ CallOptions.failIfPlainObjectsFound
       \/ << >> \in UntypedPositions /\ EffectiveRootFlag

\* C7: strict type resolution.  When the resolver names a type for an object
\* node and no descriptor is found for it: with failIfTypeResolutionFails
\* the call fails, with the resolution error when that node is the root and
\* otherwise with the resolution error unless an untyped node met a
\* class-not-found flag first; without failIfTypeResolutionFails, and with
\* neither failIfPlainObjectsFound nor a root failure for an untyped root,
\* the call succeeds and the node becomes a plain mapping holding every key
\* of the raw node, each deserialized recursively.
C7_StrictResolution ==
    RawDone /\ UnknownPositions # {} =>
        IF CallOptions.failIfTypeResolutionFails
        THEN /\ ~deserOut.ok
             /\ \/ deserOut.err = "resolution"
                \/ /\ deserOut.err = "classNotFound"
                   /\ << >> \notin UnknownPositions
                   /\ ClassNotFoundApplies
        ELSE \/ CallOptions.failIfPlainObjectsFound
             \/ RootClass = "" /\ EffectiveRootFlag
             \/ /\ deserOut.ok
                /\ \A p \in UnknownPositions :
                       /\ ResultAt(p).t = "ref"
                       /\ deserOut.H[ResultAt(p).id].k = "plain"
                       /\ PlainImage(deserOut.H, ResultAt(p), RawAt(deserOut.input, p))

\* a lenient call turned the root with an unknown type name, holding a
\* nested object of a known and one of an unknown type, into a plain mapping
C7_Witness ==
    /\ RawDone
    /\ ~CallOptions.failIfTypeResolutionFails
    /\ UnknownPositions = {<< >>, <<KeySeg("arr"), IdxSeg(0)>>}
    /\ RawAt(deserOut.input, <<KeySeg("parent")>>) = RawChild("Bar")
    /\ deserOut.ok
    /\ deserOut.H[deserOut.val.id].k = "plain"
    /\ PlainImage(deserOut.H, deserOut.val, deserOut.input)

\* a strict call failed with the resolution error on a nested node
C7_StrictWitness ==
    /\ RawDone
    /\ CallOptions.failIfTypeResolutionFails
    /\ UnknownPositions = {<<KeySeg("parent")>>}
    /\ ~deserOut.ok
    /\ deserOut.err = "resolution"

\* the typed instances of the last result: the root and its parent property
TypedPositions ==
    {p \in {<< >>, <<KeySeg("parent")>>} :
        /\ RawAt(deserOut.input, p).t = "obj"
        /\ ResultAt(p).t = "ref"
        /\ deserOut.H[ResultAt(p).id].k = "inst"}

EffectiveKeys(cls) ==
    {getAllProperties(Registry, cls)[i].key :
        i \in 1..Len(getAllProperties(Registry, cls))}

\* inst carries what its construction left, changed at exactly the effective
\* properties that are keys of raw
AssignedExactly(inst, raw) ==
    /\ \A i \in 1..Len(inst.f) :
           \/ HasKey(FieldInit(inst.cls), inst.f[i].key)
           \/ inst.f[i].key \in EffectiveKeys(inst.cls) /\ HasKey(raw.e, inst.f[i].key)
    /\ \A key \in EffectiveKeys(inst.cls) :
           IF HasKey(raw.e, key)
           THEN /\ HasKey(inst.f, key)
                /\ IsPrimitive(Lookup(raw.e, key)) \/ IsNullish(Lookup(raw.e, key))
                       => Lookup(inst.f, key) = Lookup(raw.e, key)
                /\ IsInlineObject(Lookup(raw.e, key)) => Lookup(inst.f, key).t = "ref"
           ELSE /\ HasKey(inst.f, key) <=> HasKey(FieldInit(inst.cls), key)
                /\ Lookup(inst.f, key) = Lookup(FieldInit(inst.cls), key)
    /\ \A i \in 1..Len(FieldInit(inst.cls)) :
           FieldInit(inst.cls)[i].key \notin EffectiveKeys(inst.cls)
               => Lookup(inst.f, FieldInit(inst.cls)[i].key) = FieldInit(inst.cls)[i].val

\* C9: absent keys.  On every typed instance a successful call built, exactly
\* the effective properties that are keys of the raw object were assigned:
\* an effective property whose key is absent has the value the no-argument
\* construction left (or is not there at all), and a key of the raw object
\* that is no effective property is not copied.  A call into a class whose
\* input has no unknown type name and meets no class-not-found flag succeeds
\* whatever keys are absent.
C9_AbsentKeys ==
    RawDone =>
        /\ deserOut.ok =>
               \A p \in TypedPositions :
                   AssignedExactly(deserOut.H[ResultAt(p).id], RawAt(deserOut.input, p))
        /\ RootClass # "" /\ UnknownPositions = {} /\ ~ClassNotFoundApplies => deserOut.ok

\* a root with none of the keys of its class but a key the class does not
\* declare came back as the instance its construction leaves
C9_Witness ==
    /\ RawDone
    /\ deserOut.ok
    /\ deserOut.ctor = "Foo"
    /\ KeysOf(deserOut.input.e) = <<"item">>
    /\ TypedPositions = {<< >>}
    /\ deserOut.H[deserOut.val.id] = [k |-> "inst", cls |-> "Foo", f |-> FieldInit("Foo")]

C10_FailWitness ==
    /\ RawDone
    /\ ~CallOptions.failIfRootClassNotFound
    /\ deserOut.failIfRootClassNotFound = "true"
    /\ RootClass = ""
    /\ ~deserOut.ok
    /\ deserOut.err = "classNotFound"

----------------------------------------------------------------------------
(* Maps between two serializers: the application holds a graph whose        *)
(* instances are linked through their keys and vals maps, one serializer    *)
(* with mapSerializationStrategy 'arrayOfEntries' and one with              *)
(* 'arrayOfKeyValueObjects'; either serializes, either deserializes.        *)

MapStrategies == <<"arrayOfEntries", "arrayOfKeyValueObjects">>

InitMap ==
    \E classes \in [1..TreeInst -> {"Foo", "Bar"}], g \in Graphs(TreeInst, TreeEdges) :
        /\ IsTree(g)
        /\ \A e \in g : e.slot \in {"keys", "vals"}
        /\ \A i \in 1..TreeInst : i \notin Reach(g, {1}, TreeInst) => classes[i] = "Foo"
        /\ classDataByCtor = GraphRegistry.byCtor
        /\ classDataByName = GraphRegistry.byName
        /\ protoClassData = GraphRegistry.proto
        /\ declCount = 0
        /\ heap = BuildHeap(TreeInst, classes, g)
        /\ root = Ref(1)
        /\ jcs = [i \in 1..2 |->
                     NewInstance([defaultOptions EXCEPT
                                      !.mapSerializationStrategy = MapStrategies[i]])]
        /\ plain = Undef
        /\ serOut = NotDone
        /\ deserOut = NotDone
        /\ InitialStatics
        /\ scenario = "map"

NextMap ==
    \E i \in DOMAIN jcs :
        \/ SerializeToObject(i)
        \/ DeserializeFromObject(i, RootCtor, "")

SpecMap == InitMap /\ [][NextMap]_vars

\* the entries of the map a property of an instance holds (none when unset)
MapEntries(H, inst, key) ==
    IF HasKey(inst.f, key) /\ Lookup(inst.f, key).t = "ref"
       /\ H[Lookup(inst.f, key).id].k = "map"
    THEN H[Lookup(inst.f, key).id].m
    ELSE << >>

\* C8: map encoding interop.  Whichever of the two serializers produced the
\* plain structure and whichever of the two deserializes it, the call
\* succeeds and its result is deeply equivalent to the graph that was
\* serialized: every map has the entries of the original map in the
\* original order (so the results for the two encodings are equal to each
\* other), with either strategy configured on the receiving serializer.
C8_MapInterop ==
    scenario = "map" /\ deserOut.done =>
        /\ deserOut.ok
        /\ DeeplyEquivalent(heap, root, deserOut.H, deserOut.val)
        /\ \A key \in {"keys", "vals"} :
               Len(MapEntries(deserOut.H, deserOut.H[deserOut.val.id], key))
                   = Len(MapEntries(heap, heap[root.id], key))

\* the serializer configured for [key, value] arrays has deserialized, into
\* a graph equivalent to the original, the {key, value} objects the other
\* serializer produced for an instance that holds both kinds of map
C8_Witness ==
    /\ scenario = "map"
    /\ MapEntries(heap, heap[root.id], "keys") # << >>
    /\ MapEntries(heap, heap[root.id], "vals") # << >>
    /\ serOut.done /\ serOut.ok /\ serOut.by = 2
    /\ RawGet(RawGet(serOut.val, "keys").e[1], "key").t = "obj"
    /\ deserOut.done /\ deserOut.ok /\ deserOut.by = 1
    /\ deserOut.input = serOut.val
    /\ DeeplyEquivalent(heap, root, deserOut.H, deserOut.val)

----------------------------------------------------------------------------
(* Resolution of type names.  The classes of the graph scenarios are        *)
(* registered (Foo and Bar under their names, Baz with a descriptor but no  *)
(* name, Settings with no descriptor at all); the serializer is constructed *)
(* with a table additionalClassesToConsider, written as a record or as a    *)
(* thunk, and deserializes an object that carries a type name.              *)

\* the tables of the family
NameTables ==
    {<< >>,
     <<Fld("Foo", Prim("Baz"))>>,
     <<Fld("Foo", Prim("Bar"))>>,
     <<Fld("Alt", Prim("Baz"))>>,
     <<Fld("Alt", Prim("Bar")), Fld("Bar", Prim("Foo"))>>,
     <<Fld("Foo", Prim("Settings"))>>}

TypeNames == {"Foo", "Bar", "Alt", "Nope"}

InitNames ==
    \E table \in NameTables, thunk \in BOOLEAN, useGlobal \in BOOLEAN, strict \in BOOLEAN,
       tag \in TypeNames :
        /\ classDataByCtor = GraphRegistry.byCtor
        /\ classDataByName = GraphRegistry.byName
        /\ protoClassData = GraphRegistry.proto
        /\ declCount = 0
        /\ heap = << >>
        /\ root = Undef
        /\ jcs = [i \in 1..1 |->
                     NewInstance([defaultOptions EXCEPT
                         !.additionalClassesToConsider = [thunk |-> thunk, e |-> table],
                         !.useGlobalClassRegistry = useGlobal,
                         !.failIfTypeResolutionFails = strict])]
        /\ plain = ObjV(<<Fld("#type", Prim(tag)), Fld("name", Prim("r"))>>)
        /\ serOut = NotDone
        /\ deserOut = NotDone
        /\ InitialStatics
        /\ scenario = "names"

NextNames ==
    \E ctor \in {"", "Foo"} : DeserializeFromObject(1, ctor, "")

SpecNames == InitNames /\ [][NextNames]_vars

NamesDone == scenario = "names" /\ deserOut.done

\* the table the serializer was given and the type name of the input
GivenTable == jcs[1].options.additionalClassesToConsider.e
GivenName == RawGet(deserOut.input, "#type").v

\* the class of the instance the last call returned ("" when it returned no
\* instance)
ResultClass ==
    IF deserOut.ok /\ deserOut.val.t = "ref" /\ deserOut.H[deserOut.val.id].k = "inst"
    THEN deserOut.H[deserOut.val.id].cls
    ELSE ""

\* C11: name resolution order.  An input whose type name is a key of the
\* table is deserialized into the class the table gives for it, whatever is
\* registered globally under that name; with useGlobalClassRegistry false an
\* input whose type name is no key of the table is deserialized into no
\* class (the resolution error under strict resolution, a plain mapping
\* otherwise).
C11_NameResolution ==
    NamesDone =>
        /\ HasKey(GivenTable, GivenName) => ResultClass = Lookup(GivenTable, GivenName).v
        /\ ~jcs[1].options.useGlobalClassRegistry /\ ~HasKey(GivenTable, GivenName)
               => ResultClass = ""

\* the same for a table written as a record whose classes have descriptors
C11_RecordTables ==
    NamesDone /\ ~jcs[1].options.additionalClassesToConsider.thunk =>
        /\ /\ HasKey(GivenTable, GivenName)
           /\ classDataByCtor[Lookup(GivenTable, GivenName).v].has
           => ResultClass = Lookup(GivenTable, GivenName).v
        /\ ~jcs[1].options.useGlobalClassRegistry /\ ~HasKey(GivenTable, GivenName)
               => ResultClass = ""

\* the table () => ({ Foo: Baz }) was passed over: the name Foo led to the
\* globally registered class Foo
C11_Failure ==
    /\ NamesDone
    /\ jcs[1].options.additionalClassesToConsider.thunk
    /\ GivenTable = <<Fld("Foo", Prim("Baz"))>>
    /\ GivenName = "Foo"
    /\ ResultClass = "Foo"

----------------------------------------------------------------------------
(* Re-serialization: the application serializes a graph without shared      *)
(* objects, deserializes the output, and serializes what it got back.       *)

InitIdem ==
    \E classes \in [1..TreeInst -> GraphClasses], g \in Graphs(TreeInst, TreeEdges),
       wrapped \in BOOLEAN :
        /\ IsTree(g)
        /\ wrapped => Cardinality(g) <= 1
        /\ \A i \in 1..TreeInst : i \notin Reach(g, {1}, TreeInst) => classes[i] = "Foo"
        /\ LET H == BuildHeap(TreeInst, classes, g)
               wrapper == [k |-> "plain", f |-> <<Fld("item", Ref(1))>>]
           IN IF wrapped
              THEN InitGraph(Append(H, wrapper), Ref(Len(H) + 1), defaultOptions, "idem")
              ELSE InitGraph(H, Ref(1), defaultOptions, "idem")

\* the first position of a list of values that holds an inline object or
\* array (0 when none does)
FirstInline(vals) ==
    IF \E i \in 1..Len(vals) : IsInlineObject(vals[i])
    THEN CHOOSE i \in 1..Len(vals) :
             /\ IsInlineObject(vals[i])
             /\ \A j \in 1..(i - 1) : ~IsInlineObject(vals[j])
    ELSE 0

\* the values a heap object holds, in order (keys before values for a map)
HeldValues(obj) ==
    CASE obj.k \in {"inst", "plain"} -> [i \in 1..Len(obj.f) |-> obj.f[i].val]
      [] obj.k \in {"arr", "set"} -> obj.e
      [] OTHER -> [i \in 1..(2 * Len(obj.m)) |->
                      IF i <= Len(obj.m) THEN obj.m[i].key ELSE obj.m[i - Len(obj.m)].val]

\* the heap object with its n-th held value replaced
WithHeld(obj, n, v) ==
    CASE obj.k \in {"inst", "plain"} -> [obj EXCEPT !.f[n].val = v]
      [] obj.k \in {"arr", "set"} -> [obj EXCEPT !.e[n] = v]
      [] OTHER -> IF n <= Len(obj.m) THEN [obj EXCEPT !.m[n].key = v]
                  ELSE [obj EXCEPT !.m[n - Len(obj.m)].val = v]

RECURSIVE AsLiveHeap(_, _)
\* A deserialized graph keeps the raw nodes it took over as they are (the
\* value of an 'any' property); they are objects like the others.  The heap
\* with every such node, from object i on, made a heap object of its own.
AsLiveHeap(H, i) ==
    IF i > Len(H) THEN H
    ELSE LET Moved(n) ==
                 IF n = 0 THEN AsLiveHeap(H, i + 1)
                 ELSE AsLiveHeap(Append([H EXCEPT ![i] = WithHeld(@, n, Ref(Len(H) + 1))],
                                        AsObject(HeldValues(H[i])[n])),
                                 i)
         IN Moved(FirstInline(HeldValues(H[i])))

\* jcs[i].serializeToObject(result) for the result of the last
\* deserializeFromObject; the application keeps the output beside the first
SerializeResult(i) ==
    /\ deserOut.done /\ deserOut.ok
    /\ deserOut.val.t = "ref"
    /\ \E r \in {serializeToObject(AsLiveHeap(deserOut.H, 1), jcs[i], Registry,
                                     deserOut.val)} :
          /\ serOut' = [done |-> TRUE, by |-> i, ok |-> r.out.ok, val |-> r.out.val,
                        err |-> r.out.err, of |-> "result"]
          /\ jcs' = [jcs EXCEPT ![i] = r.j]
          /\ classDataByCtor' = r.R.byCtor
          /\ classDataByName' = r.R.byName
          /\ protoClassData' = r.R.proto
    /\ UNCHANGED <<statics, declCount, heap, root, plain, deserOut, scenario>>

NextIdem ==
    \E i \in DOMAIN jcs :
        \/ SerializeToObject(i)
        \/ DeserializeFromObject(i, RootCtor, "")
        \/ SerializeResult(i)

SpecIdem == InitIdem /\ [][NextIdem]_vars

\* the application holds serialize(deserialize(serialize(v))) in serOut and
\* serialize(v) in plain
Reserialized ==
    /\ scenario = "idem"
    /\ serOut.done /\ serOut.of = "result"
    /\ deserOut.input = plain

----------------------------------------------------------------------------
(* Shared objects without the circular-reference field (C13) *)

\* the positions of the live graph that hold instance i
PositionsOf(i) == PathsTo(heap, root, Ref(i), MaxDepth)

\* the instances that occur at two or more positions
SharedInstances ==
    {i \in 1..Len(heap) : heap[i].k = "inst" /\ Cardinality(PositionsOf(i)) >= 2}

\* the application has serialized, without the circular-reference field, a
\* graph in which an object occurs at several positions and no object is
\* its own ancestor
SharedSerializeDone ==
    /\ scenario = "cycle"
    /\ jcs[1].options.circularDependencyReferencePropertyName = ""
    /\ ~Cyclic
    /\ SharedInstances # {}
    /\ serOut.done

\* the output holds a full serialization of instance i at the position p
SerializedAt(i, p) ==
    /\ RawAt(serOut.val, OutPath(p)).t = "obj"
    /\ RawGet(RawAt(serOut.val, OutPath(p)), "name") = Lookup(heap[i].f, "name")

\* C13: with the circular-reference field not configured, serializing a
\* graph in which an object occurs at two or more positions, none below
\* another (property values, array or set elements, map keys or values),
\* succeeds, and the output holds the object's serialization at each of its
\* positions.
C13_SharedDuplicated ==
    SharedSerializeDone =>
        /\ serOut.ok
        /\ \A i \in SharedInstances : \A p \in PositionsOf(i) : SerializedAt(i, p)

\* some position of a shared instance lies in a map
SharedInMap ==
    \E i \in SharedInstances : \E p \in PositionsOf(i) : \E n \in 1..Len(p) : IsPairSeg(p[n])

\* the same for graphs in which no position of a shared object is in a map
C13_SharedOutsideMaps ==
    SharedSerializeDone /\ ~SharedInMap =>
        /\ serOut.ok
        /\ \A i \in SharedInstances : \A p \in PositionsOf(i) : SerializedAt(i, p)

\* an instance held as parent and as key of the keys map: the serialization
\* aborted with the error of the path walk
C13_Failure ==
    /\ SharedSerializeDone
    /\ PositionsOf(2) = {<<KeySeg("parent")>>, <<KeySeg("keys"), PairSeg(0, 0)>>}
    /\ ~serOut.ok
    /\ serOut.err = "path"

----------------------------------------------------------------------------
(* One serializer used for many calls: the application holds a graph of Foo *)
(* instances with shared objects and cycles, serializes it from any of its  *)
(* instances and deserializes what the last successful serialization gave.  *)

InitReuse ==
    \E g \in Graphs(NumInst, MaxEdges), refName \in {"", "#ref"} :
        InitGraph(BuildHeap(NumInst, [i \in 1..NumInst |-> "Foo"], g), Ref(1),
                  [defaultOptions EXCEPT !.circularDependencyReferencePropertyName = refName],
                  "reuse")

\* the application turns to another instance of its graph
SetRoot(v) ==
    /\ root # v
    /\ root' = v
    /\ UNCHANGED <<statics, classDataByCtor, classDataByName, protoClassData, declCount, heap, jcs,
                   plain, serOut, deserOut, scenario>>

NextReuse ==
    \/ \E i \in 1..NumInst : SetRoot(Ref(i))
    \/ SerializeToObject(1)
    \/ DeserializeFromObject(1, RootCtor, "")

SpecReuse == InitReuse /\ [][NextReuse]_vars

\* the outcome of serializeToObject(root) on a serializer constructed anew
\* with the options of serializer i
FreshSerialization(i) ==
    serializeToObject(heap, NewInstance(jcs[i].options), Registry, root).out

\* the outcome of deserializeFromObject(plain, ctor) on such a serializer
FreshDeserialization(i, ctor) ==
    deserializeFromObject(NewInstance(jcs[i].options), Registry, plain, ctor, "").out

\* C14: no leakage of transient state.  Every top-level call, after any
\* calls that returned or aborted before it on the same serializer, has the
\* outcome (result or error) the same call has on a serializer constructed
\* anew with the same options: the call starts from an empty visited-object
\* map and empty pending-reference lists whatever the calls before left.
C14_NoLeak ==
    [][/\ SerializeToObject(1) =>
              /\ serOut'.ok = FreshSerialization(1).ok
              /\ serOut'.val = FreshSerialization(1).val
              /\ serOut'.err = FreshSerialization(1).err
       /\ DeserializeFromObject(1, RootCtor, "") =>
              /\ deserOut'.ok = FreshDeserialization(1, RootCtor).ok
              /\ deserOut'.val = FreshDeserialization(1, RootCtor).val
              /\ deserOut'.H = FreshDeserialization(1, RootCtor).H
              /\ deserOut'.err = FreshDeserialization(1, RootCtor).err]_vars

\* one serializer has served a serialization that returned, a
\* deserialization of its output and a serialization that aborted, and holds
\* the visited objects and the root of the aborted call
C14_Witness ==
    /\ scenario = "reuse"
    /\ serOut.done /\ ~serOut.ok
    /\ deserOut.done /\ deserOut.ok
    /\ DOMAIN jcs[1].encounteredObjectPathsInSerialization # {}
    /\ jcs[1].rootSerializationObjRef # Undef

----------------------------------------------------------------------------
(* Registry consistency (C15) *)

HierarchyCtors == {Hierarchy[i] : i \in 1..Len(Hierarchy)}

\* the name a class is registered under by @jsonClass(name)
RegisteredName(ctor, name) == IF name = "" THEN ClassName(ctor) ELSE name

\* the lookups by name n and by constructor ctor give one descriptor, which
\* is also the one an instance of ctor carries
LookupsAgree(R, n, ctor) ==
    /\ getClassDataByCtor(R, ctor) # ""
    /\ getClassDataByName(defaultOptions, R, n) = getClassDataByCtor(R, ctor)
    /\ ProtoLookup(R, ctor) = getClassDataByCtor(R, ctor)

\* C15: registry consistency.  In every state reached by property and class
\* decorators, every class whose registration gave it the name n is the
\* class the lookup by n leads to: the lookup by name n and the lookup by
\* its constructor return the same descriptor, which is the one its
\* instances carry.
C15_RegistryConsistent ==
    scenario = "registry" =>
        \A ctor \in HierarchyCtors :
            classDataByCtor[ctor].name # ""
                => LookupsAgree(Registry, classDataByCtor[ctor].name, ctor)

\* C15, amended: the same for the class registered last under n.  Right
\* after @jsonClass(name) on a class the three lookups agree for it, a name
\* keeps leading to the same class until a class is registered under that
\* name, and the class a name leads to has its descriptor under its
\* constructor and on its prototype.
C15_LastRegistration ==
    /\ [](scenario = "registry" =>
             \A n \in Names : classDataByName[n] # ""
                 => LookupsAgree(Registry, n, classDataByName[n]))
    /\ [][scenario = "registry" =>
             /\ \A ctor \in HierarchyCtors, name \in DeclNames :
                    JsonClass(ctor, name) =>
                        /\ LookupsAgree(Registry', RegisteredName(ctor, name), ctor)
                        /\ classDataByCtor'[ctor].name = RegisteredName(ctor, name)
             /\ \A n \in Names :
                    classDataByName'[n] # classDataByName[n] =>
                        \E name \in DeclNames :
                            /\ RegisteredName(classDataByName'[n], name) = n
                            /\ JsonClass(classDataByName'[n], name)]_vars

\* Animal was registered as 'Pet', Cat under its own name, and each name
\* leads to its class
C15_Witness ==
    /\ scenario = "registry"
    /\ classDataByCtor["Animal"].name = "Pet"
    /\ classDataByCtor["Cat"].name = "Cat"
    /\ LookupsAgree(Registry, "Pet", "Animal")
    /\ LookupsAgree(Registry, "Cat", "Cat")

\* Animal and Cat were both registered as 'Pet': the name leads to Cat only
C15_Collision ==
    /\ scenario = "registry"
    /\ classDataByCtor["Animal"].name = "Pet"
    /\ classDataByCtor["Cat"].name = "Pet"
    /\ classDataByName["Pet"] = "Cat"

----------------------------------------------------------------------------
(* Big integers (C16): an instance with a property declared BigInt and an  *)
(* array property of BigInt elements.                                      *)

LedgerProperties ==
    <<Fld("accountBalance", PropData("class", "", "BigInt")),
      Fld("history", PropData("array", "", "BigInt"))>>

LedgerRegistry ==
    jsonClass(Declare(EmptyRegistry, "Settings", LedgerProperties), "Settings", "", "", "")

\* big integers given by their limbs together with their decimal digits, as
\* known constants: 0, 1, 2^15 - 1, 2^15, 2^31, 2^53 - 1, 2^53, 2^53 + 1,
\* (2^53 - 1) * 1000, 2^64 - 1, 2^64
KnownBigInts ==
    { [mag |-> << >>, dec |-> <<0>>],
      [mag |-> <<1>>, dec |-> <<1>>],
      [mag |-> <<32767>>, dec |-> <<3, 2, 7, 6, 7>>],
      [mag |-> <<0, 1>>, dec |-> <<3, 2, 7, 6, 8>>],
      [mag |-> <<0, 0, 2>>, dec |-> <<2, 1, 4, 7, 4, 8, 3, 6, 4, 8>>],
      [mag |-> <<32767, 32767, 32767, 255>>,
       dec |-> <<9, 0, 0, 7, 1, 9, 9, 2, 5, 4, 7, 4, 0, 9, 9, 1>>],
      [mag |-> <<0, 0, 0, 256>>,
       dec |-> <<9, 0, 0, 7, 1, 9, 9, 2, 5, 4, 7, 4, 0, 9, 9, 2>>],
      [mag |-> <<1, 0, 0, 256>>,
       dec |-> <<9, 0, 0, 7, 1, 9, 9, 2, 5, 4, 7, 4, 0, 9, 9, 3>>],
      [mag |-> <<31768, 32767, 32767, 26623, 7>>,
       dec |-> <<9, 0, 0, 7, 1, 9, 9, 2, 5, 4, 7, 4, 0, 9, 9, 1, 0, 0, 0>>],
      [mag |-> <<32767, 32767, 32767, 32767, 15>>,
       dec |-> <<1, 8, 4, 4, 6, 7, 4, 4, 0, 7, 3, 7, 0, 9, 5, 5, 1, 6, 1, 5>>],
      [mag |-> <<0, 0, 0, 0, 16>>,
       dec |-> <<1, 8, 4, 4, 6, 7, 4, 4, 0, 7, 3, 7, 0, 9, 5, 5, 1, 6, 1, 6>>] }

InitBig ==
    \E balance \in KnownBigInts, entry \in KnownBigInts, neg \in BOOLEAN :
        /\ classDataByCtor = LedgerRegistry.byCtor
        /\ classDataByName = LedgerRegistry.byName
        /\ protoClassData = LedgerRegistry.proto
        /\ declCount = 0
        /\ heap = <<[k |-> "inst", cls |-> "Settings",
                     f |-> <<Fld("accountBalance", BigIntV(neg, balance.mag)),
                             Fld("history", Ref(2))>>],
                    [k |-> "arr", e |-> <<BigIntV(~neg, entry.mag)>>]>>
        /\ root = Ref(1)
        /\ jcs = [i \in 1..1 |-> NewInstance(defaultOptions)]
        /\ plain = Undef
        /\ serOut = NotDone
        /\ deserOut = NotDone
        /\ InitialStatics
        /\ scenario = "big"

NextBig ==
    \/ SerializeToObject(1)
    \/ DeserializeFromObject(1, RootCtor, "")

SpecBig == InitBig /\ [][NextBig]_vars

\* the big integers the application holds: the property and the array element
HeldBalance == Lookup(heap[1].f, "accountBalance")
HeldEntry == heap[2].e[1]
\* the exact decimal string of a big integer, from the known constants
ExactDecimal(b) ==
    DigitsV(b.neg, (CHOOSE c \in KnownBigInts : c.mag = b.mag).dec)
\* beyond the integers a Number represents exactly
BeyondNumber(b) == Len(b.mag) > 4 \/ (Len(b.mag) = 4 /\ b.mag[4] > 255)

BigSerialized == scenario = "big" /\ serOut.done
BigDeserialized == scenario = "big" /\ deserOut.done

\* the array the deserialized instance holds
ResultHistory == deserOut.H[Lookup(deserOut.H[deserOut.val.id].f, "history").id].e

\* C16: a big integer, beyond the exactly representable range of numbers or
\* not, serializes to its exact decimal digit string, and deserializing that
\* string in a property declared BigInt or in an array of BigInt yields a
\* big integer equal to the original
C16_BigIntFidelity ==
    /\ BigSerialized =>
          /\ serOut.ok
          /\ Lookup(serOut.val.e, "accountBalance") = ExactDecimal(HeldBalance)
          /\ Lookup(serOut.val.e, "history").e = <<ExactDecimal(HeldEntry)>>
    /\ BigDeserialized =>
          /\ deserOut.ok
          /\ Lookup(deserOut.H[deserOut.val.id].f, "accountBalance") = HeldBalance
          /\ ResultHistory = <<HeldEntry>>

\* a negative balance beyond 2^53 and an entry beyond 2^53 came back
C16_Witness ==
    /\ BigDeserialized
    /\ deserOut.ok
    /\ HeldBalance.neg
    /\ BeyondNumber(HeldBalance)
    /\ BeyondNumber(HeldEntry)
    /\ Lookup(deserOut.H[deserOut.val.id].f, "accountBalance") = HeldBalance

----------------------------------------------------------------------------
(* failIfPlainObjectsFound (C17): parsed JSON for a Bar, whose property    *)
(* data is declared with @jsonAnyProperty(), whose property name is        *)
(* declared without a type and whose property arr holds Foo elements.      *)

DataChoices ==
    {Undef, Prim("d"), ObjV(<<Fld("x", Num(1))>>), ArrV(<<ObjV(<<Fld("x", Num(1))>>)>>),
     RawChild("Bar")}

AnyRoot(tag, name, data, arr) ==
    ObjV(OptionalField(tag # "", "#type", Prim(tag))
         \o <<Fld("name", name)>>
         \o OptionalField(data # Undef, "data", data)
         \o OptionalField(arr # Undef, "arr", arr))

InitAny ==
    \E tag \in {"", "Bar", "Nope"}, name \in {Prim("r"), ObjV(<<Fld("n", Num(0))>>)},
       data \in DataChoices, arr \in {Undef, ArrV(<<RawChild("")>>)},
       failIfPlainObjectsFound \in BOOLEAN, failIfTypeResolutionFails \in BOOLEAN :
        /\ classDataByCtor = GraphRegistry.byCtor
        /\ classDataByName = GraphRegistry.byName
        /\ protoClassData = GraphRegistry.proto
        /\ declCount = 0
        /\ heap = << >>
        /\ root = Undef
        /\ jcs = [i \in 1..1 |->
                     NewInstance([defaultOptions EXCEPT
                         !.failIfPlainObjectsFound = failIfPlainObjectsFound,
                         !.failIfTypeResolutionFails = failIfTypeResolutionFails])]
        /\ plain = AnyRoot(tag, name, data, arr)
        /\ serOut = NotDone
        /\ deserOut = NotDone
        /\ InitialStatics
        /\ scenario = "any"

NextAny ==
    \E ctor \in {"", "Bar"}, failIfRootClassNotFound \in {"", "true"} :
        DeserializeFromObject(1, ctor, failIfRootClassNotFound)

SpecAny == InitAny /\ [][NextAny]_vars

RECURSIVE HoldsPlainObject(_, _)
\* a result holds, at some depth, an object that is no instance of a class:
\* a mapping the untyped walk built, or a raw mapping of the input
HoldsPlainObject(H, v) ==
    CASE v.t = "obj" -> TRUE
      [] v.t = "arr" -> \E i \in 1..Len(v.e) : HoldsPlainObject(H, v.e[i])
      [] v.t = "ref" ->
            CASE H[v.id].k = "plain" -> TRUE
              [] H[v.id].k = "inst" ->
                    \E i \in 1..Len(H[v.id].f) : HoldsPlainObject(H, H[v.id].f[i].val)
              [] H[v.id].k \in {"arr", "set"} ->
                    \E i \in 1..Len(H[v.id].e) : HoldsPlainObject(H, H[v.id].e[i])
              [] OTHER -> FALSE
      [] OTHER -> FALSE

RECURSIVE HoldsFallbackObject(_, _)
\* a result holds, at some depth reached through live objects, a mapping the
\* untyped walk built
HoldsFallbackObject(H, v) ==
    IF v.t # "ref" THEN FALSE
    ELSE CASE H[v.id].k = "plain" -> TRUE
           [] H[v.id].k = "inst" ->
                 \E i \in 1..Len(H[v.id].f) : HoldsFallbackObject(H, H[v.id].f[i].val)
           [] H[v.id].k \in {"arr", "set"} ->
                 \E i \in 1..Len(H[v.id].e) : HoldsFallbackObject(H, H[v.id].e[i])
           [] OTHER -> FALSE

AnyDone == scenario = "any" /\ deserOut.done
StrictAboutPlain == jcs[1].options.failIfPlainObjectsFound

\* C17: with failIfPlainObjectsFound set, a deserialization that succeeds
\* returns no plain mapping at any depth, under 'any' properties and inside
\* collections included
C17_NoPlainObjects ==
    (AnyDone /\ StrictAboutPlain /\ deserOut.ok) =>
        ~HoldsPlainObject(deserOut.H, deserOut.val)

\* the part that holds: the untyped fallback itself is fatal, so no mapping
\* it built is in a result
C17_FallbackFatal ==
    (AnyDone /\ StrictAboutPlain /\ deserOut.ok) =>
        ~HoldsFallbackObject(deserOut.H, deserOut.val)

\* failIfPlainObjectsFound is set and the call returned a Bar whose data
\* property is the raw mapping of the input
C17_Failure ==
    /\ AnyDone
    /\ StrictAboutPlain
    /\ deserOut.ok
    /\ deserOut.val.t = "ref"
    /\ deserOut.H[deserOut.val.id].k = "inst"
    /\ Lookup(deserOut.H[deserOut.val.id].f, "data") = ObjV(<<Fld("x", Num(1))>>)

\* an object in the untyped property name made the call fail
C17_FatalWitness ==
    /\ AnyDone
    /\ StrictAboutPlain
    /\ ~deserOut.ok
    /\ deserOut.err = "classNotFound"
    /\ Lookup(deserOut.input.e, "data") = Prim("d")
    /\ ResolveType(jcs[1].options, deserOut.input) = Prim("Bar")

----------------------------------------------------------------------------
(* The ambiguity error (C18): an instance of a class with two declared     *)
(* properties, note of type String and obj declared in every way; the      *)
(* class is registered with @jsonClass or not.                             *)

\* @jsonProperty, @jsonArrayProperty and @jsonAnyProperty, with a value type
\* or without, with property-level hooks or without
ObjDeclarations ==
    {pd \in [type : {"class", "array", "any"}, kct : {""}, vct : {"", "Foo"},
             ser : {"", "hooked"}, deser : {"", "hooked"}] :
        pd.type = "any" => pd.vct = ""}

\* what the property holds: nothing (the key is absent), null, primitives,
\* a bigint, or object 2 of the heap
ObjValues == {Undef, Null, Prim("s"), Prim(""), Num(0), BigIntV(FALSE, <<1>>), Ref(2)}
HeldObjects ==
    {[k |-> "plain", f |-> << >>], [k |-> "arr", e |-> << >>],
     [k |-> "inst", cls |-> "Foo", f |-> <<Fld("name", Prim("f"))>>]}

AmbRegistry(decl, registered) ==
    LET R == Declare(GraphRegistry, "Settings",
                     <<Fld("note", PropData("class", "", "String")), Fld("obj", decl)>>)
    IN IF registered THEN jsonClass(R, "Settings", "", "", "") ELSE R

InitAmb ==
    \E decl \in ObjDeclarations, registered \in BOOLEAN, value \in ObjValues,
       held \in HeldObjects :
        /\ value.t # "ref" => held.k = "plain"
        /\ classDataByCtor = AmbRegistry(decl, registered).byCtor
        /\ classDataByName = AmbRegistry(decl, registered).byName
        /\ protoClassData = AmbRegistry(decl, registered).proto
        /\ declCount = 0
        /\ heap = <<[k |-> "inst", cls |-> "Settings",
                     f |-> <<Fld("note", Prim("n"))>>
                           \o OptionalField(value # Undef, "obj", value)],
                    held>>
        /\ root = Ref(1)
        /\ jcs = [i \in 1..1 |-> NewInstance(defaultOptions)]
        /\ plain = Undef
        /\ serOut = NotDone
        /\ deserOut = NotDone
        /\ InitialStatics
        /\ scenario = "amb"

NextAmb ==
    \/ SerializeToObject(1)
    \/ DeserializeFromObject(1, RootCtor, "")

SpecAmb == InitAmb /\ [][NextAmb]_vars

AmbSerialized == scenario = "amb" /\ serOut.done
\* the value and the declaration of the property obj
HeldObj == Lookup(heap[1].f, "obj")
ObjDeclaration == Lookup(classDataByCtor["Settings"].props, "obj")
\* the declaration names no value type and no deserializer, and is of a kind
\* that takes a value type
Undeclared ==
    /\ ObjDeclaration.type \in {"class", "array"}
    /\ ObjDeclaration.vct = ""
    /\ ObjDeclaration.deser = ""

C18_NullWitness ==
    /\ AmbSerialized
    /\ serOut.ok
    /\ HeldObj = Null
    /\ Undeclared
    /\ Lookup(serOut.val.e, "obj") = Null

----------------------------------------------------------------------------
(* The paths of the reference markers (C19) *)

RECURSIVE MarkerPaths(_)
\* the paths carried by the reference markers of a serialized structure
MarkerPaths(v) ==
    IF v.t = "obj"
    THEN IF HasKey(v.e, "#ref") THEN {Lookup(v.e, "#ref").e}
         ELSE UNION {MarkerPaths(v.e[i].val) : i \in 1..Len(v.e)}
    ELSE IF v.t = "arr" THEN UNION {MarkerPaths(v.e[i]) : i \in 1..Len(v.e)}
    ELSE {}

\* the application has serialized its graph with the circular-reference
\* field configured
MarkedSerializeDone ==
    /\ scenario = "cycle"
    /\ jcs[1].options.circularDependencyReferencePropertyName = "#ref"
    /\ serOut.done /\ serOut.ok

\* the objects whose recorded path is the path mp of a marker
Referenced(mp) ==
    {i \in DOMAIN jcs[1].encounteredObjectPathsInSerialization :
        jcs[1].encounteredObjectPathsInSerialization[i] = mp}

\* C19: the path of every reference marker of the output is a position of
\* the referenced object in the form the deserializer records: property
\* keys, array or set indices, and one [entryIndex, slot] segment for a map
\* entry
C19_PathFormat ==
    MarkedSerializeDone =>
        \A mp \in MarkerPaths(serOut.val) :
            \E i \in Referenced(mp) : mp \in PositionsOf(i)

\* some marker refers to an object that was first met in a map
TargetInMap ==
    \E mp \in MarkerPaths(serOut.val) : \E i \in Referenced(mp) : \E p \in PositionsOf(i) :
        OutPath(p) = mp /\ \E n \in 1..Len(p) : IsPairSeg(p[n])

\* the same for outputs in which no marker refers into a map
C19_OutsideMaps ==
    (MarkedSerializeDone /\ ~TargetInMap) =>
        \A mp \in MarkerPaths(serOut.val) :
            \E i \in Referenced(mp) : mp \in PositionsOf(i)

\* a marker carries the flat path ['keys', 0, 0] of an instance that is the
\* key of the first entry of the map keys, and the final pass of the
\* deserialization of that output threw
C19_Failure ==
    /\ MarkedSerializeDone
    /\ <<KeySeg("keys"), IdxSeg(0), IdxSeg(0)>> \in MarkerPaths(serOut.val)
    /\ <<KeySeg("keys"), PairSeg(0, 0)>> \in PositionsOf(2)
    /\ deserOut.done /\ deserOut.input = serOut.val
    /\ ~deserOut.ok /\ deserOut.err = "path"

----------------------------------------------------------------------------
(* Cycles and a serializer constructed without options (C20) *)

\* the serializer was constructed by new JsonClassSerializer, the root of
\* the graph is reachable from itself, and the graph has been serialized
DefaultCycleSerialized ==
    /\ scenario = "cycle"
    /\ jcs[1].options = defaultOptions
    /\ RootPositions # {}
    /\ serOut.done

\* C20: a serializer constructed with no options serializes a graph whose
\* root is reachable from itself by emitting {"#ref": path} markers, with
\* the path [] for the root, and deserializing that output with the same
\* serializer yields a graph that holds its root at the positions that held
\* the root
C20_DefaultMarkers ==
    DefaultCycleSerialized =>
        /\ serOut.ok
        /\ << >> \in MarkerPaths(serOut.val)
        /\ (deserOut.done /\ deserOut.input = serOut.val) =>
              (deserOut.ok /\ \A p \in RootPositions : HoldsRoot(p))

\* the root is its own parent; the serializer constructed with no options
\* aborted with the circular-reference error and left no output
C20_Failure ==
    /\ DefaultCycleSerialized
    /\ Lookup(heap[1].f, "parent") = Ref(1)
    /\ ~serOut.ok
    /\ serOut.err = "circular"
    /\ plain = Undef

----------------------------------------------------------------------------
(* The options of the instances and the static fields (C21): the           *)
(* application constructs serializers, reads the default instance and      *)
(* assigns fields of defaultOptions and of the options of instances.       *)

MaxInstances == 3

OptionFields == {"failIfPlainObjectsFound", "mapSerializationStrategy"}
OptionValues(f) ==
    IF f = "failIfPlainObjectsFound" THEN {TRUE, FALSE}
    ELSE {"arrayOfEntries", "arrayOfKeyValueObjects"}
\* the constructor arguments: none, or one field
PartialOptions ==
    {<< >>} \cup UNION {{<<Fld(f, v)>> : v \in OptionValues(f)} : f \in OptionFields}

InitOptions ==
    /\ classDataByCtor = GraphRegistry.byCtor
    /\ classDataByName = GraphRegistry.byName
    /\ protoClassData = GraphRegistry.proto
    /\ declCount = 0
    /\ heap = << >>
    /\ root = Undef
    /\ jcs = << >>
    /\ plain = Undef
    /\ serOut = NotDone
    /\ deserOut = NotDone
    /\ InitialStatics
    /\ scenario = "options"

\* new JsonClassSerializer(options)
NewSerializer(options) ==
    /\ Len(jcs) < MaxInstances
    /\ jcs' = Append(jcs, NewInstance(Spread(staticOptions, options)))
    /\ UNCHANGED <<regVars, heap, root, plain, serOut, deserOut, statics, scenario>>

\* JsonClassSerializer.defaultOptions[f] = v
AssignDefaultOption(f, v) ==
    /\ staticOptions[f] # v
    /\ staticOptions' = [staticOptions EXCEPT ![f] = v]
    /\ UNCHANGED <<regVars, heap, root, jcs, plain, serOut, deserOut, defaultInstance,
                   scenario>>

\* jcs[i].options[f] = v
AssignInstanceOption(i, f, v) ==
    /\ jcs[i].options[f] # v
    /\ jcs' = [jcs EXCEPT ![i].options[f] = v]
    /\ UNCHANGED <<regVars, heap, root, plain, serOut, deserOut, statics, scenario>>

\* JsonClassSerializer.defaultInstance, read for the first time: the getter
\* constructs the instance without options
GetDefaultInstance ==
    /\ defaultInstance = 0
    /\ Len(jcs) < MaxInstances
    /\ jcs' = Append(jcs, NewInstance(Spread(staticOptions, << >>)))
    /\ defaultInstance' = Len(jcs) + 1
    /\ UNCHANGED <<regVars, heap, root, plain, serOut, deserOut, staticOptions, scenario>>

NextOptions ==
    \/ \E options \in PartialOptions : NewSerializer(options)
    \/ GetDefaultInstance
    \/ \E f \in OptionFields : \E v \in OptionValues(f) : AssignDefaultOption(f, v)
    \/ \E i \in DOMAIN jcs : \E f \in OptionFields : \E v \in OptionValues(f) :
           AssignInstanceOption(i, f, v)

SpecOptions == InitOptions /\ [][NextOptions]_vars

\* the instances that exist keep their fields in the step
InstancesKept == \A j \in DOMAIN jcs : jcs'[j] = jcs[j]

\* C21: the options of a new instance are the defaultOptions of that moment
\* with the fields of the constructor argument written over them; assigning
\* a field of defaultOptions changes no instance that exists, the default
\* instance included; assigning a field of the options of one instance
\* changes no other instance and not defaultOptions
C21_OptionsSnapshot ==
    [][/\ \A options \in PartialOptions :
              NewSerializer(options) =>
                  /\ InstancesKept
                  /\ staticOptions' = staticOptions
                  /\ \A f \in DOMAIN defaultOptions :
                         jcs'[Len(jcs')].options[f] =
                             IF options # << >> /\ options[1].key = f THEN options[1].val
                             ELSE staticOptions[f]
       /\ GetDefaultInstance =>
              /\ InstancesKept
              /\ jcs'[defaultInstance'].options = staticOptions
              /\ staticOptions' = staticOptions
       /\ \A f \in OptionFields : \A v \in OptionValues(f) :
              AssignDefaultOption(f, v) =>
                  /\ jcs' = jcs
                  /\ defaultInstance' = defaultInstance
       /\ \A i \in DOMAIN jcs : \A f \in OptionFields : \A v \in OptionValues(f) :
              AssignInstanceOption(i, f, v) =>
                  /\ \A j \in DOMAIN jcs \ {i} : jcs'[j] = jcs[j]
                  /\ staticOptions' = staticOptions
                  /\ defaultInstance' = defaultInstance]_vars

\* the default instance was created, a field of defaultOptions was assigned
\* afterwards, and an instance constructed later with another field as
\* argument has the new default: the three differ
C21_Witness ==
    /\ scenario = "options"
    /\ defaultInstance = 1
    /\ Len(jcs) = 2
    /\ jcs[1].options = defaultOptions
    /\ staticOptions.failIfPlainObjectsFound
    /\ jcs[2].options.failIfPlainObjectsFound
    /\ jcs[2].options.mapSerializationStrategy = "arrayOfKeyValueObjects"
    /\ staticOptions.mapSerializationStrategy = "arrayOfEntries"

----------------------------------------------------------------------------
(* The final pass of the deserialization (C22): parsed JSON for a Foo with *)
(* reference markers as parent, in arr, in set, as a key of keys and as a  *)
(* value of vals.  A marker refers to the root, to the first element of    *)
(* arr, to the set or to the map keys; the target comes before the marker  *)
(* in the walk (a backward reference) or after it (a forward reference).   *)

Mk(targetPath) == ObjV(<<Fld("#ref", ArrV(targetPath))>>)
RawFoo == ObjV(<<Fld("name", Prim("c"))>>)
ToRoot == Mk(<< >>)
ToElement == Mk(<<KeySeg("arr"), IdxSeg(0)>>)
ToSet == Mk(<<KeySeg("set")>>)
ToKeys == Mk(<<KeySeg("keys")>>)

MarkedRoot(parent, arr, set, keys, vals) ==
    ObjV(<<Fld("name", Prim("r"))>>
         \o OptionalField(parent # Undef, "parent", parent)
         \o OptionalField(arr # Undef, "arr", arr)
         \o OptionalField(set # Undef, "set", set)
         \o OptionalField(keys # Undef, "keys", keys)
         \o OptionalField(vals # Undef, "vals", vals))

InitFinal ==
    \E parent \in {Undef, ToRoot, ToElement, ToSet},
       arr \in {Undef, ArrV(<<RawFoo>>), ArrV(<<RawFoo, ToRoot, ToRoot>>)},
       set \in {Undef, ArrV(<<RawFoo>>), ArrV(<<ToRoot>>), ArrV(<<RawFoo, ToElement>>)},
       keys \in {Undef, ArrV(<<ArrV(<<RawFoo, Prim("k")>>)>>),
                 ArrV(<<ArrV(<<ToRoot, Prim("k")>>)>>)},
       vals \in {Undef, ArrV(<<ArrV(<<Prim("v"), ToRoot>>)>>),
                 ArrV(<<ArrV(<<Prim("v"), ToSet>>)>>),
                 ArrV(<<ArrV(<<Prim("v"), ToKeys>>)>>)} :
        /\ classDataByCtor = GraphRegistry.byCtor
        /\ classDataByName = GraphRegistry.byName
        /\ protoClassData = GraphRegistry.proto
        /\ declCount = 0
        /\ heap = << >>
        /\ root = Undef
        /\ jcs = [i \in 1..1 |->
                     NewInstance([defaultOptions EXCEPT
                         !.circularDependencyReferencePropertyName = "#ref"])]
        /\ plain = MarkedRoot(parent, arr, set, keys, vals)
        /\ serOut = NotDone
        /\ deserOut = NotDone
        /\ InitialStatics
        /\ scenario = "final"

NextFinal ==
    \E ctor \in {"Foo", "Bar"} : DeserializeFromObject(1, ctor, "")

SpecFinal == InitFinal /\ [][NextFinal]_vars

\* deserializeFromObject has returned
FinalReturned == scenario = "final" /\ deserOut.done /\ deserOut.ok

\* the reference paths the walk recorded
RecordedPaths ==
    {jcs[1].encounteredReferencePathsInDeserialization[i] :
        i \in 1..Len(jcs[1].encounteredReferencePathsInDeserialization)}

\* the target path of the marker the input holds at a recorded path
TargetOf(refPath) == RawGet(RawAt(deserOut.input, OutPath(refPath)), "#ref").e

IsPlaceholder(v) == v.t = "obj" /\ HasKey(v.e, "#ref")

RECURSIVE ReachableIds(_, _, _)
\* the objects of H that are reachable from the objects S in n steps
ReachableIds(H, S, n) ==
    IF n = 0 THEN S
    ELSE ReachableIds(H,
             S \cup {c.val.id : c \in {d \in UNION {ChildSegs(H[i]) : i \in S} : d.val.t = "ref"}},
             n - 1)

\* a marker of the input is a child of an object reachable from the result
PlaceholderReachable ==
    \E i \in ReachableIds(deserOut.H, {deserOut.val.id}, Len(deserOut.H)) :
        \E c \in ChildSegs(deserOut.H[i]) : IsPlaceholder(c.val)

\* the result holds at refPath the object it holds at the marker's target
Resolved(refPath) ==
    /\ getInObjectFromPath(deserOut.H, deserOut.val, refPath).ok
    /\ getInObjectFromPath(deserOut.H, deserOut.val, TargetOf(refPath)).ok
    /\ getInObjectFromPath(deserOut.H, deserOut.val, refPath).val
           = getInObjectFromPath(deserOut.H, deserOut.val, TargetOf(refPath)).val

\* C22: when deserializeFromObject returns with the circular-reference
\* field configured, the result holds at every recorded reference path the
\* very object it holds at the marker's target path, and no marker is
\* reachable from the result
C22_Finalized ==
    FinalReturned => (~PlaceholderReachable /\ \A refPath \in RecordedPaths : Resolved(refPath))

\* a reference to the set was resolved before the set was rebuilt around a
\* resolved member: parent is the set that still holds the marker
StaleContainer ==
    /\ FinalReturned
    /\ <<KeySeg("parent")>> \in RecordedPaths
    /\ TargetOf(<<KeySeg("parent")>>) = <<KeySeg("set")>>
    /\ <<KeySeg("set"), IdxSeg(0)>> \in RecordedPaths

C22_Failure == StaleContainer /\ PlaceholderReachable /\ ~Resolved(<<KeySeg("parent")>>)

\* without a marker in a set or as a map key, the final pass resolves all
NoRebuild ==
    \A refPath \in RecordedPaths :
        /\ refPath[1] # KeySeg("set")
        /\ refPath[1] # KeySeg("keys")

C22_ResolvedWithoutRebuild ==
    (FinalReturned /\ NoRebuild) =>
        (~PlaceholderReachable /\ \A refPath \in RecordedPaths : Resolved(refPath))

----------------------------------------------------------------------------
(* The path of a reference marker (C23).  The walk visits the properties   *)
(* of an instance in descriptor order, the elements of an array or set in  *)
(* iteration order and, of a map entry, the key before the value.          *)

\* the rank of the child at segment seg among the children of obj
SegRank(obj, seg) ==
    CASE obj.k = "inst" ->
             KeyIndex(getAllProperties(GraphRegistry, CtorOf(obj)), seg.v)
      [] obj.k = "plain" -> KeyIndex(obj.f, seg.v)
      [] obj.k \in {"arr", "set"} -> seg.n
      [] OTHER -> 2 * seg.e[1].n + seg.e[2].n

RECURSIVE WalkedBefore(_, _, _, _)
\* the walk from v reaches the position p before the position q
WalkedBefore(H, v, p, q) ==
    IF p = << >> THEN TRUE
    ELSE IF q = << >> THEN FALSE
    ELSE IF Head(p) = Head(q)
         THEN WalkedBefore(H, getInObjectFromPath(H, v, <<Head(p)>>).val, Tail(p), Tail(q))
    ELSE SegRank(H[v.id], Head(p)) < SegRank(H[v.id], Head(q))

\* the position p passes through no object twice
Simple(p) ==
    \A m \in 0..Len(p), n \in 0..Len(p) :
        m # n => getInObjectFromPath(heap, root, SubSeq(p, 1, m)).val
                    # getInObjectFromPath(heap, root, SubSeq(p, 1, n)).val

\* the position of object i the walk from the root reaches first: the walk
\* does not descend into an object it has visited
FirstPosition(i) ==
    CHOOSE p \in {s \in PositionsOf(i) : Simple(s)} :
        \A q \in {s \in PositionsOf(i) : Simple(s)} : WalkedBefore(heap, root, p, q)

\* the output holds a marker at the position p
MarkerAt(p) == IsPlaceholder(RawAt(serOut.val, OutPath(p)))

\* C23: with the circular-reference field configured, the marker the output
\* holds at a position of object o carries the path at which the walk
\* first visited o (the empty path for the root), never the path of a later
\* position of o
C23_FirstVisitPath ==
    MarkedSerializeDone =>
        \A i \in DOMAIN heap : \A p \in PositionsOf(i) :
            MarkerAt(p) =>
                /\ RawGet(RawAt(serOut.val, OutPath(p)), "#ref").e = OutPath(FirstPosition(i))
                /\ p # FirstPosition(i)

\* an object with three positions, the marker at its last position
C23_Witness ==
    /\ MarkedSerializeDone
    /\ \E i \in DOMAIN heap : \E p \in PositionsOf(i), q \in PositionsOf(i) :
          /\ MarkerAt(p) /\ MarkerAt(q)
          /\ p # q
          /\ FirstPosition(i) # << >>
          /\ WalkedBefore(heap, root, q, p)
          /\ RawGet(RawAt(serOut.val, OutPath(p)), "#ref").e = OutPath(FirstPosition(i))

\* the root below itself, referenced by the empty path
C23_RootWitness ==
    /\ MarkedSerializeDone
    /\ \E p \in PositionsOf(root.id) :
          MarkerAt(p) /\ RawGet(RawAt(serOut.val, OutPath(p)), "#ref").e = << >>

----------------------------------------------------------------------------
(* What a serializeToObject call writes (C24) *)

\* the call wrote, of the serializers, only the visited paths and the root
\* reference of serializer i
OnlyPerCallState(i) ==
    jcs' = [jcs EXCEPT ![i] =
               [jcs[i] EXCEPT !.encounteredObjectPathsInSerialization =
                                  jcs'[i].encounteredObjectPathsInSerialization,
                              !.rootSerializationObjRef = jcs'[i].rootSerializationObjRef]]

\* the descriptor of ctor is as it was, or it had no constructor and no
\* deserializer and has been given ctor as its constructor
SameOrCtorSet(ctor) ==
    \/ classDataByCtor'[ctor] = classDataByCtor[ctor]
    \/ /\ classDataByCtor[ctor].has
       /\ classDataByCtor[ctor].ctor = ""
       /\ classDataByCtor[ctor].deser = ""
       /\ classDataByCtor'[ctor] = [classDataByCtor[ctor] EXCEPT !.ctor = ctor]

----------------------------------------------------------------------------
(* Input that holds instances already (C25): the application passes a Foo  *)
(* it has constructed, or parsed JSON in which parent, or an element of    *)
(* arr, is such a Foo.  The properties of the instance hold parsed JSON.   *)

LiveFoos ==
    {LiveV("Foo", <<Fld("name", Prim("l"))>> \o OptionalField(parent # Undef, "parent", parent)
                      \o OptionalField(arr # Undef, "arr", arr)) :
        parent \in {Undef, Null, RawFoo}, arr \in {Undef, ArrV(<< >>), ArrV(<<RawFoo>>)}}

LiveInputs ==
    LiveFoos
    \cup {ObjV(<<Fld("name", Prim("r")), Fld("parent", l)>>) : l \in LiveFoos}
    \cup {ObjV(<<Fld("name", Prim("r")), Fld("arr", ArrV(<<RawFoo, l>>))>>) : l \in LiveFoos}
    \cup {ObjV(<<Fld("#type", Prim("Foo")), Fld("name", Prim("r"))>>
               \o OptionalField(parent # Undef, "parent", parent)) :
              parent \in {Undef, RawFoo}}

InitLive ==
    \E input \in LiveInputs, strict \in BOOLEAN :
        /\ classDataByCtor = GraphRegistry.byCtor
        /\ classDataByName = GraphRegistry.byName
        /\ protoClassData = GraphRegistry.proto
        /\ declCount = 0
        /\ heap = << >>
        /\ root = Undef
        /\ jcs = [i \in 1..1 |->
                     NewInstance([defaultOptions EXCEPT !.failIfPlainObjectsFound = strict])]
        /\ plain = input
        /\ serOut = NotDone
        /\ deserOut = NotDone
        /\ InitialStatics
        /\ scenario = "live"

NextLive ==
    \E ctor \in {"", "Foo", "Bar"}, fail \in {"", "true"} : DeserializeFromObject(1, ctor, fail)

SpecLive == InitLive /\ [][NextLive]_vars

RECURSIVE LivePaths(_, _)
\* the paths of the instances the input v holds
LivePaths(v, path) ==
    IF v.t = "arr"
    THEN UNION {LivePaths(v.e[i], Append(path, IdxSeg(i - 1))) : i \in 1..Len(v.e)}
    ELSE IF v.t = "obj"
    THEN (IF IsLive(v) THEN {path} ELSE {})
         \cup UNION {LivePaths(v.e[i].val, Append(path, KeySeg(v.e[i].key))) : i \in 1..Len(v.e)}
    ELSE {}

\* deserializeFromObject has returned, with the target type Foo, for which
\* a descriptor is found
LiveReturned == scenario = "live" /\ deserOut.done /\ deserOut.ok /\ deserOut.ctor = "Foo"

\* what the result holds at the path
LiveResult(path) == getInObjectFromPath(deserOut.H, deserOut.val, path).val

\* what the property loop gives for the property key of the instance at path
Patched(path, key) ==
    deserializeProperty(jcs[1].options, Lookup(getAllProperties(Registry, "Foo"), key),
                        ApplyHook(Lookup(getAllProperties(Registry, "Foo"), key).deser,
                                  RawGet(RawAt(deserOut.input, path), key)),
                        Append(path, KeySeg(key)),
                        [R |-> Registry, H |-> << >>, refs |-> << >>])

\* the property holds parsed JSON that the property loop would replace
NeedsPatch(path, key) ==
    /\ HasKey(RawAt(deserOut.input, path).e, key)
    /\ Patched(path, key).ok
    /\ Patched(path, key).val # RawGet(RawAt(deserOut.input, path), key)

\* the result holds, where the input holds an instance, that instance
SameInstance(path) ==
    /\ IsLive(LiveResult(path))
    /\ LiveResult(path).cls = RawAt(deserOut.input, path).cls
    /\ KeysOf(LiveResult(path).e) = KeysOf(RawAt(deserOut.input, path).e)

\* C25: where the input holds an instance of a type with a descriptor, no
\* object is constructed for it, and each of its declared properties has
\* gone through the property loop: it holds no parsed JSON that the
\* property's deserialization replaces
C25_LivePatched ==
    LiveReturned =>
        \A path \in LivePaths(deserOut.input, << >>) :
            /\ SameInstance(path)
            /\ \A i \in 1..Len(LiveResult(path).e) :
                  NeedsPatch(path, LiveResult(path).e[i].key) =>
                      LiveResult(path).e[i].val # RawGet(RawAt(deserOut.input, path),
                                                        LiveResult(path).e[i].key)

\* C25, as the code has it: the instance is the result as it is, its
\* properties untouched, and no object is constructed for it
C25_LiveAsIs ==
    LiveReturned =>
        \A path \in LivePaths(deserOut.input, << >>) :
            LiveResult(path) = RawAt(deserOut.input, path)

\* an instance whose parent holds parsed JSON is returned with it
C25_Witness ==
    /\ LiveReturned
    /\ \E path \in LivePaths(deserOut.input, << >>) :
          /\ NeedsPatch(path, "parent")
          /\ LiveResult(path) = RawAt(deserOut.input, path)

----------------------------------------------------------------------------
(* Class-level deserializers (C26), with the classes of the tests:         *)
(*   @jsonClass(undefined, { serializer, deserializer })                   *)
(*   class Account { @jsonProperty() currency; @jsonProperty() balance }   *)
(* and a class that holds accounts in a property declared with the type    *)
(* and in a property declared without a type:                              *)
(*   @jsonClass() class Settings { @jsonProperty(Account) account;         *)
(*                                 @jsonProperty() other }                 *)

AccountProperties ==
    <<Fld("currency", PropData("class", "", "")), Fld("balance", PropData("class", "", ""))>>
HolderProperties ==
    <<Fld("account", PropData("class", "", "Account")), Fld("other", PropData("class", "", ""))>>

HookRegistry ==
    jsonClass(Declare(jsonClass(Declare(EmptyRegistry, "Account", AccountProperties),
                                "Account", "", "hooked", "split"),
                      "Settings", HolderProperties),
              "Settings", "", "", "")

TaggedAccount ==
    ObjV(<<Fld("#type", Prim("Account")), Fld("currency", Prim("USD")), Fld("balance", Num(1))>>)
AccountInputs == {Prim("USD 1"), Prim("EUR 2"), TaggedAccount, Null}

HookInputs ==
    AccountInputs
    \cup {ObjV(OptionalField(account # Undef, "account", account)
               \o OptionalField(other # Undef, "other", other)) :
              account \in AccountInputs \cup {Undef}, other \in AccountInputs \cup {Undef}}

InitHook ==
    \E input \in HookInputs, strict \in BOOLEAN :
        /\ classDataByCtor = HookRegistry.byCtor
        /\ classDataByName = HookRegistry.byName
        /\ protoClassData = HookRegistry.proto
        /\ declCount = 0
        /\ heap = << >>
        /\ root = Undef
        /\ jcs = [i \in 1..1 |->
                     NewInstance([defaultOptions EXCEPT !.failIfPlainObjectsFound = strict])]
        /\ plain = input
        /\ serOut = NotDone
        /\ deserOut = NotDone
        /\ InitialStatics
        /\ scenario = "hook"

NextHook ==
    \E ctor \in {"", "Account", "Settings"} : DeserializeFromObject(1, ctor, "")

SpecHook == InitHook /\ [][NextHook]_vars

\* the descriptor that governs the root of the input: the one of the target
\* type, or the one the type field of the input leads to
GoverningRoot ==
    DetermineClassData(jcs[1].options, HookRegistry, deserOut.input,
                       getClassDataByCtor(HookRegistry, deserOut.ctor))

\* the deserializer of the governing descriptor first, then the dispatch
\* on its output
HookThenDispatch(o, hook, value, valueClassData, st) ==
    IF HookThrows(hook, value) THEN Fail("hook", st)
    ELSE IF IsNullish(ApplyHook(hook, value)) THEN Ok(ApplyHook(hook, value), st)
    ELSE IF ApplyHook(hook, value).t = "arr"
    THEN deserializeArray(o, ApplyHook(hook, value), << >>, valueClassData,
                          o.failIfRootClassNotFound, st)
    ELSE deserializeObject(o, ApplyHook(hook, value), << >>, valueClassData,
                           o.failIfRootClassNotFound, st)

\* deserializeFromObject has returned or thrown, and the descriptor that
\* governs the root of its input has a class-level deserializer
HookedRoot ==
    /\ scenario = "hook" /\ deserOut.done
    /\ GoverningRoot.ok /\ GoverningRoot.vcd # ""
    /\ HookRegistry.byCtor[GoverningRoot.vcd].deser # ""

\* the outcome is the one of the dispatch on the deserializer's output
SeesHookOutput(r) ==
    /\ deserOut.ok = r.ok
    /\ r.ok => (deserOut.val = r.val /\ deserOut.H = r.st.H)

\* C26: when the descriptor that governs a node (the one of the target
\* type, or the one resolved from the node's type field) has a class-level
\* deserializer, the node is dispatched on the deserializer's output
C26_HookBeforeDispatch ==
    HookedRoot =>
        SeesHookOutput(HookThenDispatch(jcs[1].options,
                                        HookRegistry.byCtor[GoverningRoot.vcd].deser,
                                        deserOut.input, GoverningRoot.vcd,
                                        [R |-> HookRegistry, H |-> << >>, refs |-> << >>]))

\* C26 for the descriptor of the target type
C26_DeclaredHook ==
    (HookedRoot /\ deserOut.ctor = GoverningRoot.vcd) =>
        SeesHookOutput(HookThenDispatch(jcs[1].options,
                                        HookRegistry.byCtor[GoverningRoot.vcd].deser,
                                        deserOut.input, GoverningRoot.vcd,
                                        [R |-> HookRegistry, H |-> << >>, refs |-> << >>]))

\* an account that carries its type and is deserialized without a target
\* type: the instance is built from it, and Account's deserializer, which
\* throws for an object, has not been applied
C26_Failure ==
    /\ HookedRoot
    /\ deserOut.ctor = ""
    /\ deserOut.input = TaggedAccount
    /\ HookThrows("split", deserOut.input)
    /\ deserOut.ok
    /\ deserOut.H[deserOut.val.id].cls = "Account"

\* the deserializer applied for the target type Account
C26_DeclaredWitness ==
    /\ HookedRoot
    /\ deserOut.ctor = "Account"
    /\ deserOut.input = Prim("USD 1")
    /\ deserOut.ok
    /\ Lookup(deserOut.H[deserOut.val.id].f, "currency") = Prim("USD")

----------------------------------------------------------------------------
(* The effective type of a node with a target type (C27) *)

\* the target type of the node at p: the one the caller passes for the
\* root, Foo for parent and for the elements of arr of an instance
TargetType(p) ==
    IF p = << >> THEN (IF deserOut.ctor = "Foo" THEN "Foo" ELSE "")
    ELSE IF RootClass # "" THEN "Foo" ELSE ""

\* the object nodes of the input that have a target type
TargetedPositions ==
    {p \in {<< >>, <<KeySeg("parent")>>, <<KeySeg("arr"), IdxSeg(0)>>} :
        RawAt(deserOut.input, p).t = "obj" /\ TargetType(p) # ""}

\* the result holds an instance of class c at p
BuiltAs(p, c) ==
    /\ ResultAt(p).t = "ref"
    /\ deserOut.H[ResultAt(p).id].k = "inst"
    /\ deserOut.H[ResultAt(p).id].cls = c

\* the result holds at p a plain mapping of the node's keys
BuiltPlain(p) ==
    /\ ResultAt(p).t = "ref"
    /\ deserOut.H[ResultAt(p).id].k = "plain"
    /\ PlainImage(deserOut.H, ResultAt(p), RawAt(deserOut.input, p))

\* C27: a node with the target type T is built as T when the resolver
\* yields nothing for it, as U when the resolver yields a name that leads to
\* the descriptor U, and as a plain mapping, T discarded, when the resolver
\* yields a name that leads to no descriptor and failIfTypeResolutionFails
\* is off
C27_EffectiveType ==
    (RawDone /\ deserOut.ok) =>
        \A p \in TargetedPositions :
            IF Falsy(ResolveType(CallOptions, RawAt(deserOut.input, p)))
            THEN BuiltAs(p, TargetType(p))
            ELSE IF ResolvedData(RawAt(deserOut.input, p)) # ""
            THEN BuiltAs(p, ResolvedData(RawAt(deserOut.input, p)))
            ELSE ~CallOptions.failIfTypeResolutionFails /\ BuiltPlain(p)

\* the root without a type field built as the target type Foo, parent, with
\* the type field Bar, as Bar, and the element of arr, with a type field
\* that leads nowhere, as a plain mapping
C27_Witness ==
    /\ RawDone /\ deserOut.ok
    /\ deserOut.ctor = "Foo"
    /\ TargetedPositions = {<< >>, <<KeySeg("parent")>>, <<KeySeg("arr"), IdxSeg(0)>>}
    /\ Falsy(ResolveType(CallOptions, deserOut.input))
    /\ BuiltAs(<< >>, "Foo")
    /\ RawAt(deserOut.input, <<KeySeg("parent")>>) = RawChild("Bar")
    /\ BuiltAs(<<KeySeg("parent")>>, "Bar")
    /\ Unresolvable(RawAt(deserOut.input, <<KeySeg("arr"), IdxSeg(0)>>))
    /\ BuiltPlain(<<KeySeg("arr"), IdxSeg(0)>>)

----------------------------------------------------------------------------
(* A serializer used inside its own call (C28).  The application has       *)
(*   @jsonClass() class Settings {                                          *)
(*       @jsonProperty(Foo) first;                                          *)
(*       @jsonProperty(Foo, { serializer: v => s.serializeToObject(v) })    *)
(*       hooked;                                                            *)
(*       @jsonProperty(Foo) last }                                          *)
(* and serializes a Settings with the serializer jcs[1]; s is jcs[1] too,  *)
(* or another serializer with the same options.                             *)

OverlapProperties(hook) ==
    <<Fld("first", PropData("class", "", "Foo")),
      Fld("hooked", [PropData("class", "", "Foo") EXCEPT !.ser = hook]),
      Fld("last", PropData("class", "", "Foo"))>>

OverlapRegistry(hook) ==
    jsonClass(Declare(GraphRegistry, "Settings", OverlapProperties(hook)),
              "Settings", "", "", "")

\* a Settings and two Foos
OverlapHeap(first, hooked, last, parent2, parent3) ==
    <<[k |-> "inst", cls |-> "Settings",
       f |-> <<Fld("first", first), Fld("hooked", hooked), Fld("last", last)>>],
      [k |-> "inst", cls |-> "Foo", f |-> <<Fld("name", Prim("x")), Fld("parent", parent2)>>],
      [k |-> "inst", cls |-> "Foo", f |-> <<Fld("name", Prim("y")), Fld("parent", parent3)>>]>>

InitOverlap ==
    \E hook \in {"reenter", "delegate"}, refName \in {"", "#ref"},
       first \in {Null, Ref(2), Ref(3)}, hooked \in {Null, Ref(2), Ref(3)},
       last \in {Null, Ref(2), Ref(3)},
       parent2 \in {Null, Ref(2), Ref(3)}, parent3 \in {Null, Ref(2), Ref(3)} :
        /\ classDataByCtor = OverlapRegistry(hook).byCtor
        /\ classDataByName = OverlapRegistry(hook).byName
        /\ protoClassData = OverlapRegistry(hook).proto
        /\ declCount = 0
        /\ heap = OverlapHeap(first, hooked, last, parent2, parent3)
        /\ root = Ref(1)
        /\ jcs = [i \in 1..1 |->
                     NewInstance([defaultOptions EXCEPT
                         !.circularDependencyReferencePropertyName = refName])]
        /\ plain = Undef
        /\ serOut = NotDone
        /\ deserOut = NotDone
        /\ InitialStatics
        /\ scenario = "overlap"

NextOverlap == SerializeToObject(1)

SpecOverlap == InitOverlap /\ [][NextOverlap]_vars

OverlapDone == scenario = "overlap" /\ serOut.done
HookTarget == Lookup(classDataByCtor["Settings"].props, "hooked").ser
WithMarkers == jcs[1].options.circularDependencyReferencePropertyName = "#ref"
HeldAt(key) == Lookup(heap[1].f, key)

\* the Foos that are reached from the value v through parent
Below(v) == IF v.t = "ref" THEN ReachableIds(heap, {v.id}, Len(heap)) ELSE {}

\* a Foo below v is its own ancestor
CycleBelow(v) == \E i \in Below(v) : i \in Below(Lookup(heap[i].f, "parent"))

\* the outcome of the inner call when it is made alone, by a serializer of
\* its own
InnerAlone ==
    serializeToObject(heap, NewInstance(jcs[1].options), OverlapRegistry(HookTarget),
                      HeldAt("hooked")).out

\* what the output holds for a property of the Settings
OutputAt(key) == RawGet(serOut.val, key)

\* what a serializer that is used by one call only gives
OutcomeAlone ==
    IF WithMarkers
    THEN /\ serOut.ok
         /\ OutputAt("hooked") = InnerAlone.val
         /\ (HeldAt("last").t = "ref" /\ HeldAt("last").id \in Below(HeldAt("first")))
                => IsPlaceholder(OutputAt("last"))
    ELSE IF CycleBelow(HeldAt("first")) \/ CycleBelow(HeldAt("hooked"))
            \/ CycleBelow(HeldAt("last"))
    THEN ~serOut.ok /\ serOut.err = "circular"
    ELSE serOut.ok /\ OutputAt("hooked") = InnerAlone.val

\* the outer call has lost what it had visited before the hook: an object
\* it meets again is serialized again, and a cycle is walked without end
OutcomeCorrupted ==
    /\ (WithMarkers /\ HeldAt("last").t = "ref"
           /\ HeldAt("last").id \in Below(HeldAt("first"))
           /\ HeldAt("last").id \notin Below(HeldAt("hooked")))
          => (serOut.ok /\ ~IsPlaceholder(OutputAt("last")))
    /\ (~WithMarkers /\ ~CycleBelow(HeldAt("first")) /\ ~CycleBelow(HeldAt("hooked"))
           /\ CycleBelow(HeldAt("last")))
          => (~serOut.ok /\ serOut.err = "RangeError")

\* C28: a serializeToObject call that runs to its end inside another one on
\* the same serializer replaces the visited objects and clears the root
\* reference of the outer call, which then does not recognise an object it
\* has visited (no marker, no circular-reference error); with a serializer
\* of its own for the inner call, both calls have the outcome they have
\* alone
C28_Overlap ==
    OverlapDone =>
        /\ HookTarget = "delegate" => OutcomeAlone
        /\ HookTarget = "reenter" => OutcomeCorrupted

\* first and last hold the same Foo, the hook in between reenters: no
\* marker at last, where the serializer alone gives one
C28_Witness ==
    /\ OverlapDone
    /\ HookTarget = "reenter"
    /\ WithMarkers
    /\ HeldAt("first") = Ref(2) /\ HeldAt("last") = Ref(2) /\ HeldAt("hooked") = Ref(3)
    /\ 2 \notin Below(Ref(3))
    /\ serOut.ok
    /\ ~IsPlaceholder(OutputAt("last"))
    /\ OutputAt("last") = OutputAt("first")

\* a cycle that is met after the hook is not reported
C28_CycleWitness ==
    /\ OverlapDone
    /\ HookTarget = "reenter"
    /\ ~WithMarkers
    /\ CycleBelow(HeldAt("last"))
    /\ ~serOut.ok /\ serOut.err = "RangeError"

\* the same with a serializer of its own for the hook
C28_AloneWitness ==
    /\ OverlapDone
    /\ HookTarget = "delegate"
    /\ WithMarkers
    /\ HeldAt("first") = Ref(2) /\ HeldAt("last") = Ref(2) /\ HeldAt("hooked") = Ref(3)
    /\ IsPlaceholder(OutputAt("last"))

----------------------------------------------------------------------------
(* Termination of the walk with markers (C29) *)

\* serializeToObject has returned or thrown, the circular-reference field
\* configured
MarkedSerializeReturned ==
    /\ scenario = "cycle"
    /\ jcs[1].options.circularDependencyReferencePropertyName = "#ref"
    /\ serOut.done

\* the output holds at the position p what the walk made of the object
\* there, and not a marker
ExpandedAt(p) ==
    /\ RawAt(serOut.val, OutPath(p)) # Undef
    /\ ~IsPlaceholder(RawAt(serOut.val, OutPath(p)))

\* the positions at which the output holds object i in full
Expansions(i) == {p \in PositionsOf(i) : ExpandedAt(p)}

----------------------------------------------------------------------------
(* What a registration and a repeated declaration keep (C30) *)

\* the descriptor of ctor but for its name, constructor and options
KeptByRegistration(classData) ==
    [classData EXCEPT !.has = TRUE, !.name = "", !.ctor = "", !.ser = "", !.deser = ""]

\* the step registers ctor: its properties, their descriptors and their
\* order are kept, every other descriptor is as it was, and of the names
\* only the one of the registration leads elsewhere
RegistrationKeeps(ctor) ==
    /\ classDataByCtor'[ctor].props = classDataByCtor[ctor].props
    /\ KeptByRegistration(classDataByCtor'[ctor]) = KeptByRegistration(classDataByCtor[ctor])
    /\ \A other \in DOMAIN classDataByCtor \ {ctor} :
          classDataByCtor'[other] = classDataByCtor[other]
    /\ \A n \in DOMAIN classDataByName :
          classDataByName'[n] # classDataByName[n] =>
              (n = classDataByCtor'[ctor].name /\ classDataByName'[n] = ctor)

\* the step declares key of ctor: a key that is declared already keeps its
\* position and gets the new descriptor, a new key comes last; every other
\* key keeps its position and its descriptor
DeclarationKeeps(ctor, key, propData) ==
    /\ Lookup(classDataByCtor'[ctor].props, key) = propData
    /\ KeysOf(classDataByCtor'[ctor].props) =
           IF HasKey(classDataByCtor[ctor].props, key)
           THEN KeysOf(classDataByCtor[ctor].props)
           ELSE Append(KeysOf(classDataByCtor[ctor].props), key)
    /\ \A i \in 1..Len(classDataByCtor[ctor].props) :
          classDataByCtor[ctor].props[i].key # key =>
              classDataByCtor'[ctor].props[i] = classDataByCtor[ctor].props[i]
    /\ \A other \in DOMAIN classDataByCtor \ {ctor} :
          classDataByCtor'[other] = classDataByCtor[other]
    /\ classDataByName' = classDataByName

\* C30: registering a type with jsonClass keeps the properties declared for
\* it before, their descriptors and their order, and sets only the name,
\* the constructor and the options of its descriptor and the entry of its
\* name; declaring a property again under a key replaces the descriptor and
\* keeps the position of the key
C30_DeclarationsKept ==
    [][/\ \A ctor \in HierarchyCtors, name \in DeclNames :
              JsonClass(ctor, name) => RegistrationKeeps(ctor)
       /\ \A ctor \in HierarchyCtors, key \in DeclKeys, propData \in DeclKinds :
              JsonProperty(ctor, key, propData) => DeclarationKeeps(ctor, key, propData)]_vars

\* a type with two declared properties and a registration under a name:
\* both properties are there, in the order of their declaration
C30_Witness ==
    /\ scenario = "registry"
    /\ declCount = 3
    /\ \E ctor \in HierarchyCtors :
          /\ classDataByCtor[ctor].ctor = ctor
          /\ classDataByCtor[ctor].name = "Pet"
          /\ classDataByName["Pet"] = ctor
          /\ KeysOf(classDataByCtor[ctor].props) = <<"fur", "name">>

\* a key declared twice: one key, with the later descriptor
C30_RedeclaredWitness ==
    /\ scenario = "registry"
    /\ declCount = 3
    /\ \E ctor \in HierarchyCtors :
          /\ KeysOf(classDataByCtor[ctor].props) = <<"name">>
          /\ Lookup(classDataByCtor[ctor].props, "name").ser = "hooked"
          /\ classDataByCtor[ctor].ctor = ""
          /\ \A other \in HierarchyCtors \ {ctor} : ~classDataByCtor[other].has

====
